---- MODULE Spec2Model ----
(***************************************************************************)
(* Model of synesis2neo4j.py: the pipeline compile -> configuration ->     *)
(* connection -> clear + synchronisation -> metrics, the statements it     *)
(* sends to the graph store, and the store's committed and in-transaction  *)
(* state.                                                                  *)
(*                                                                         *)
(* A Python string is a sequence of characters; a character is a TLA+      *)
(* string of length one, except the two non-ASCII letters, which are       *)
(* written "eacute" (U+00E9) and "EACUTE" (U+00C9).                        *)
(***************************************************************************)
EXTENDS Integers, Sequences, FiniteSets, TLC

(***************************************************************************)
(* Characters and the str methods the program uses.                        *)
(***************************************************************************)
AsciiLower ==
  <<"a","b","c","d","e","f","g","h","i","j","k","l","m",
    "n","o","p","q","r","s","t","u","v","w","x","y","z">>

AsciiUpper ==
  <<"A","B","C","D","E","F","G","H","I","J","K","L","M",
    "N","O","P","Q","R","S","T","U","V","W","X","Y","Z">>

AsciiDigit == {"0","1","2","3","4","5","6","7","8","9"}

Range(s) == {s[i] : i \in DOMAIN s}

IsAsciiLetter(c) == c \in Range(AsciiLower) \cup Range(AsciiUpper)

\* str.isalpha: Unicode letters, so the accented letters count.
IsAlpha(c) == IsAsciiLetter(c) \/ c \in {"eacute", "EACUTE"}

\* str.isdigit
IsDigit(c) == c \in AsciiDigit

\* str.isalnum
IsAlnum(c) == IsAlpha(c) \/ IsDigit(c)

UpperChar(c) ==
  IF c \in Range(AsciiLower)
    THEN AsciiUpper[CHOOSE i \in DOMAIN AsciiLower : AsciiLower[i] = c]
    ELSE IF c = "eacute" THEN "EACUTE" ELSE c

LowerChar(c) ==
  IF c \in Range(AsciiUpper)
    THEN AsciiLower[CHOOSE i \in DOMAIN AsciiUpper : AsciiUpper[i] = c]
    ELSE IF c = "EACUTE" THEN "eacute" ELSE c

\* str.upper
Upper(s) == [i \in DOMAIN s |-> UpperChar(s[i])]

\* str.lower
Lower(s) == [i \in DOMAIN s |-> LowerChar(s[i])]

\* A name left as it is written.
AsWritten(s) == s

\* str.capitalize: first character upper-cased, the rest lower-cased.
Capitalize(s) ==
  [i \in DOMAIN s |-> IF i = 1 THEN UpperChar(s[i]) ELSE LowerChar(s[i])]

\* "".join(c for c in s if keep(c))
Filter(s, keep(_)) == SelectSeq(s, keep)

\* str.replace for a single-character pattern
ReplaceChar(s, old, new) == [i \in DOMAIN s |-> IF s[i] = old THEN new ELSE s[i]]

(***************************************************************************)
(* Sanitization (lines 165-203).                                           *)
(***************************************************************************)
KeepLabelChar(c) == IsAlnum(c) \/ c = "_"

\* A sanitizer that puts the underscore before every label.
PrefixUnderscore(label) ==
  LET sanitized == Filter(label, KeepLabelChar)
  IN IF sanitized # <<>> THEN <<"_">> \o sanitized ELSE <<"U","n","k","n","o","w","n">>

sanitize_cypher_label(label) ==
  LET sanitized == Filter(label, KeepLabelChar)
      prefixed  == IF sanitized # <<>> /\ IsDigit(sanitized[1])
                     THEN <<"_">> \o sanitized
                     ELSE sanitized
  IN IF prefixed # <<>> THEN prefixed ELSE <<"U","n","k","n","o","w","n">>

KeepDbChar(c) == IsAlnum(c) \/ c \in {".", "-"}

sanitize_database_name(name) ==
  LET replaced  == ReplaceChar(name, "_", "-")
      sanitized == Filter(replaced, KeepDbChar)
      prefixed  == IF sanitized # <<>> /\ ~IsAlpha(sanitized[1])
                     THEN <<"d","b">> \o sanitized
                     ELSE sanitized
  IN IF Lower(prefixed) # <<>> THEN Lower(prefixed)
     ELSE <<"s","y","n","e","s","i","s">>

\* The whole of s matches [A-Za-z_][A-Za-z0-9_]*
IsIdentifier(s) ==
  /\ s # <<>>
  /\ IsAsciiLetter(s[1]) \/ s[1] = "_"
  /\ \A i \in DOMAIN s :
       IsAsciiLetter(s[i]) \/ s[i] \in AsciiDigit \/ s[i] = "_"

\* A pattern without its anchors: some part of s matches it.
ContainsIdentifier(label) ==
  \E i \in DOMAIN label : IsAsciiLetter(label[i]) \/ label[i] = "_"

\* _CYPHER_LABEL_PATTERN.match(label): in Python's re, "$" also matches just
\* before a newline that ends the string.
validate_cypher_label(label) ==
  \/ IsIdentifier(label)
  \/ /\ label # <<>>
     /\ label[Len(label)] = "\n"
     /\ IsIdentifier(SubSeq(label, 1, Len(label) - 1))

(***************************************************************************)
(* The string literals of the program, as character sequences.             *)
(***************************************************************************)
Lit ==
  [ONTOLOGY |-> <<"O","N","T","O","L","O","G","Y">>,
     ITEM |-> <<"I","T","E","M">>,
     SOURCE |-> <<"S","O","U","R","C","E">>,
     TEXT |-> <<"T","E","X","T">>,
     TOPIC |-> <<"T","O","P","I","C">>,
     ENUMERATED |-> <<"E","N","U","M","E","R","A","T","E","D">>,
     ORDERED |-> <<"O","R","D","E","R","E","D">>,
     CHAIN |-> <<"C","H","A","I","N">>,
     CODE |-> <<"C","O","D","E">>,
     Concept |-> <<"C","o","n","c","e","p","t">>,
     Source |-> <<"S","o","u","r","c","e">>,
     Item |-> <<"I","t","e","m">>,
     Topic |-> <<"T","o","p","i","c">>,
     Aspect |-> <<"A","s","p","e","c","t">>,
     Dimension |-> <<"D","i","m","e","n","s","i","o","n">>,
     topic |-> <<"t","o","p","i","c">>,
     aspect |-> <<"a","s","p","e","c","t">>,
     dimension |-> <<"d","i","m","e","n","s","i","o","n">>,
     confidence |-> <<"c","o","n","f","i","d","e","n","c","e">>,
     GROUPED_BY |-> <<"G","R","O","U","P","E","D","_","B","Y">>,
     QUALIFIED_BY |-> <<"Q","U","A","L","I","F","I","E","D","_","B","Y">>,
     BELONGS_TO |-> <<"B","E","L","O","N","G","S","_","T","O">>,
     RATED_AS |-> <<"R","A","T","E","D","_","A","S">>,
     HAS |-> <<"H","A","S","_">>,
     FROM_SOURCE |-> <<"F","R","O","M","_","S","O","U","R","C","E">>,
     RELATES_TO |-> <<"R","E","L","A","T","E","S","_","T","O">>,
     MENTIONS |-> <<"M","E","N","T","I","O","N","S">>,
     IS_LINKED_TO |-> <<"I","S","_","L","I","N","K","E","D","_","T","O">>,
     MAPPED_TO_ASPECT |-> <<"M","A","P","P","E","D","_","T","O","_","A","S","P","E","C","T">>,
     MAPPED_TO_DIMENSION |-> <<"M","A","P","P","E","D","_","T","O","_","D","I","M","E","N","S","I","O","N">>,
     name |-> <<"n","a","m","e">>,
     description |-> <<"d","e","s","c","r","i","p","t","i","o","n">>,
     created |-> <<"c","r","e","a","t","e","d">>,
     last_updated |-> <<"l","a","s","t","_","u","p","d","a","t","e","d">>,
     bibtex |-> <<"b","i","b","t","e","x">>,
     item_id |-> <<"i","t","e","m","_","i","d">>,
     citation |-> <<"c","i","t","a","t","i","o","n">>,
     title |-> <<"t","i","t","l","e">>,
     method |-> <<"m","e","t","h","o","d">>,
     author |-> <<"a","u","t","h","o","r">>,
     year |-> <<"y","e","a","r">>,
     doi |-> <<"d","o","i">>,
     journal |-> <<"j","o","u","r","n","a","l">>,
     abstract |-> <<"a","b","s","t","r","a","c","t">>,
     chain |-> <<"c","h","a","i","n">>,
     code |-> <<"c","o","d","e">>,
     note |-> <<"n","o","t","e">>,
     text |-> <<"t","e","x","t">>,
     nodes |-> <<"n","o","d","e","s">>,
     justificativa_interna |-> <<"j","u","s","t","i","f","i","c","a","t","i","v","a","_","i","n","t","e","r","n","a">>,
     descricao |-> <<"d","e","s","c","r","i","c","a","o">>,
     ordem_1a |-> <<"o","r","d","e","m","_","1","a">>,
     type |-> <<"t","y","p","e">>,
     order |-> <<"o","r","d","e","r">>,
     strength |-> <<"s","t","r","e","n","g","t","h">>,
     sfx_n |-> <<"_","n">>,
     sfx_c |-> <<"_","c">>,
     synesis |-> <<"s","y","n","e","s","i","s">>,
     out_degree |-> <<"o","u","t","_","d","e","g","r","e","e">>,
     in_degree |-> <<"i","n","_","d","e","g","r","e","e">>,
     degree |-> <<"d","e","g","r","e","e">>,
     mention_count |-> <<"m","e","n","t","i","o","n","_","c","o","u","n","t">>,
     source_count |-> <<"s","o","u","r","c","e","_","c","o","u","n","t">>,
     concept_count |-> <<"c","o","n","c","e","p","t","_","c","o","u","n","t">>,
     weighted_degree |-> <<"w","e","i","g","h","t","e","d","_","d","e","g","r","e","e">>,
     aspect_diversity |-> <<"a","s","p","e","c","t","_","d","i","v","e","r","s","i","t","y">>,
     dimension_diversity |-> <<"d","i","m","e","n","s","i","o","n","_","d","i","v","e","r","s","i","t","y">>,
     item_count |-> <<"i","t","e","m","_","c","o","u","n","t">>,
     pagerank |-> <<"p","a","g","e","r","a","n","k">>,
     betweenness |-> <<"b","e","t","w","e","e","n","n","e","s","s">>,
     community |-> <<"c","o","m","m","u","n","i","t","y">>,
     synesis_metrics_graph |-> <<"s","y","n","e","s","i","s","_","m","e","t","r","i","c","s","_","g","r","a","p","h">>,
     system |-> <<"s","y","s","t","e","m">>,
     neo4j |-> <<"n","e","o","4","j">>]

(***************************************************************************)
(* Python values.  A dict is a function from keys (character sequences)    *)
(* to values; a JSON value is tagged with its Python type.                 *)
(***************************************************************************)
PyInt(n) == [t |-> "int", v |-> n]

PyStr(s) == [t |-> "str", v |-> s]

PyList(l) == [t |-> "list", v |-> l]

PyNone == [t |-> "none", v |-> 0]

\* A truth test that every value passes.
AlwaysTruthy(v) == TRUE

\* bool(v)
Truthy(v) ==
  CASE v.t = "int" -> v.v # 0
    [] v.t = "str" -> v.v # <<>>
    [] v.t = "list" -> v.v # <<>>
    [] OTHER -> FALSE

\* d.get(k, default)
Get(d, k, default) == IF k \in DOMAIN d THEN d[k] ELSE default

\* a or b
PyOr(a, b) == IF Truthy(a) THEN a ELSE b

EmptyDict == <<>>

DigitChar == <<"0","1","2","3","4","5","6","7","8","9">>

\* str(n) for a non-negative int
RECURSIVE IntToStr(_)
IntToStr(n) ==
  IF n < 10 THEN <<DigitChar[n + 1]>>
  ELSE IntToStr(n \div 10) \o <<DigitChar[(n % 10) + 1]>>

\* An index written without padding.
Unpadded(idx) == IntToStr(idx)

\* f"{idx:04d}"
Pad4(idx) ==
  LET digits == IntToStr(idx)
  IN IF Len(digits) >= 4 THEN digits
     ELSE [i \in 1..(4 - Len(digits)) |-> "0"] \o digits

\* str(v) of an int or a str
PyToStr(v) == IF v.t = "int" THEN IntToStr(v.v) ELSE v.v

IsSpace(c) == c \in {" ", "\n", "\t"}

\* A string left as it is.
NoStrip(s, c) == s

\* str.lstrip(chars) for a single character
RECURSIVE LStrip(_, _)
LStrip(s, c) == IF s # <<>> /\ s[1] = c THEN LStrip(Tail(s), c) ELSE s

\* str.strip()
RECURSIVE Strip(_)
Strip(s) ==
  IF s = <<>> THEN s
  ELSE IF IsSpace(s[1]) THEN Strip(Tail(s))
  ELSE IF IsSpace(s[Len(s)]) THEN Strip(SubSeq(s, 1, Len(s) - 1))
  ELSE s

(***************************************************************************)
(* Template analysis (lines 309-365).  field_specs is the template's dict  *)
(* in insertion order: a sequence of [name, scope, type, values,           *)
(* relations, description], an absent key holding the default the code     *)
(* reads for it.                                                           *)
(***************************************************************************)
IsTaxonomySpec(spec) ==
  /\ Upper(spec.scope) = Lit.ONTOLOGY
  /\ spec.type \in {Lit.TOPIC, Lit.ENUMERATED, Lit.ORDERED}

\* Every ontology field taken for a scalar field.
IsOntologySpec(spec) == Upper(spec.scope) = Lit.ONTOLOGY

IsScalarSpec(spec) ==
  /\ Upper(spec.scope) = Lit.ONTOLOGY
  /\ spec.type \notin {Lit.TOPIC, Lit.ENUMERATED, Lit.ORDERED}

IsChainSpec(spec) == Upper(spec.scope) = Lit.ITEM /\ spec.type = Lit.CHAIN

IsCodeSpec(spec) == Upper(spec.scope) = Lit.ITEM /\ spec.type = Lit.CODE

IsSourceSpec(spec) == Upper(spec.scope) = Lit.SOURCE

FieldNames(specs) == [i \in DOMAIN specs |-> specs[i].name]

analyze_template(field_specs) ==
  LET taxonomy == SelectSeq(field_specs, IsTaxonomySpec)
      valued   == {i \in DOMAIN taxonomy : taxonomy[i].values # <<>>}
  IN [scalar_fields |-> FieldNames(SelectSeq(field_specs, IsScalarSpec)),
      graph_fields  |-> FieldNames(taxonomy),
      chain_fields  |-> [i \in DOMAIN SelectSeq(field_specs, IsChainSpec) |->
                          [field_name |-> SelectSeq(field_specs, IsChainSpec)[i].name,
                           relations  |-> SelectSeq(field_specs, IsChainSpec)[i].relations]],
      code_fields   |-> [i \in DOMAIN SelectSeq(field_specs, IsCodeSpec) |->
                          [field_name  |-> SelectSeq(field_specs, IsCodeSpec)[i].name,
                           description |-> SelectSeq(field_specs, IsCodeSpec)[i].description]],
      value_maps    |-> [n \in {taxonomy[i].name : i \in valued} |->
                          taxonomy[CHOOSE i \in valued : taxonomy[i].name = n].values],
      source_fields |-> FieldNames(SelectSeq(field_specs, IsSourceSpec))]

get_taxonomy_labels(graph_fields) ==
  [i \in DOMAIN graph_fields |-> sanitize_cypher_label(Capitalize(graph_fields[i]))]

(***************************************************************************)
(* Payload construction (lines 426-668).                                   *)
(***************************************************************************)
\* value_map is a sequence of dicts with keys "index" and "label".
_index_to_label(value, value_map) ==
  IF value.t = "int"
    THEN LET hits == {i \in DOMAIN value_map :
                        /\ "index" \in DOMAIN value_map[i]
                        /\ value_map[i]["index"] = value.v}
         IN IF hits # {}
              THEN LET first == CHOOSE i \in hits : \A j \in hits : i <= j
                   IN Get(value_map[first], "label", IntToStr(value.v))
              ELSE IntToStr(value.v)
    ELSE PyToStr(value)

\* relations[gf] of one ontology entry
ConceptRelation(raw_val, gf, value_maps) ==
  IF gf \in DOMAIN value_maps
    THEN IF raw_val.t = "list"
           THEN [i \in DOMAIN raw_val.v |->
                   PyStr(_index_to_label(raw_val.v[i], value_maps[gf]))]
           ELSE <<PyStr(_index_to_label(raw_val, value_maps[gf]))>>
    ELSE IF raw_val.t = "list" THEN raw_val.v ELSE <<raw_val>>

\* ontology is the dict in insertion order: a sequence of
\* [name, description, fields]; now is int(time.time()).
_extract_concepts(ontology, scalar_fields, graph_fields, value_maps, now) ==
  [k \in DOMAIN ontology |->
     LET entry  == ontology[k]
         fields == entry.fields
         base   == [n \in {Lit.name, Lit.description, Lit.created} |->
                      CASE n = Lit.name -> PyStr(entry.name)
                        [] n = Lit.description -> entry.description
                        [] OTHER -> PyInt(now)]
         scalar == [sf \in Range(scalar_fields) \cap DOMAIN fields |-> fields[sf]]
     IN [props     |-> scalar @@ base,
         relations |-> [gf \in Range(graph_fields) \cap DOMAIN fields |->
                          ConceptRelation(fields[gf], gf, value_maps)]]]

BibKeys == <<Lit.title, Lit.author, Lit.year, Lit.doi, Lit.journal, Lit.abstract>>

\* Source properties keyed by the reference as the record writes it.
RawRefProps(source_ref, item, bibliography, source_fields) ==
  Lit.bibtex :> PyStr(item.source_ref)

_build_source_props(source_ref, item, bibliography, source_fields) ==
  LET bib_entry   == Get(bibliography, source_ref, EmptyDict)
      source_meta == item.source_metadata
      std(key)    == PyOr(Get(source_meta, key, PyNone), Get(bib_entry, key, PyNone))
      standard    == [key \in {k \in Range(BibKeys) : std(k) # PyNone} |-> std(key)]
      dynamic     == [f \in {g \in Range(source_fields) :
                               g \in DOMAIN source_meta /\ source_meta[g] # PyNone} |->
                        source_meta[f]]
  IN dynamic @@ standard @@ (Lit.bibtex :> PyStr(source_ref))

\* An item id without the sub-index.
ItemIdOfRecord(corpus_id, suffix, idx) == corpus_id \o suffix

ItemId(corpus_id, suffix, idx) == corpus_id \o suffix \o Pad4(idx)

\* A relation type that is only upper-cased.
UpperOnly(rel) == Upper(rel)

\* rel.upper().replace(" ", "_").replace("-", "_")
RelType(rel) == ReplaceChar(ReplaceChar(Upper(rel), " ", "_"), "-", "_")

\* The chain branch for one corpus record (lines 573-604); acc holds the
\* five lists built so far.
RECURSIVE ChainPairs(_, _, _, _, _, _, _)
ChainPairs(acc, idx, notes, chain_list, corpus_item, source_ref, relation_definitions) ==
  IF idx > Len(notes) \/ idx > Len(chain_list) THEN acc
  ELSE
    LET item_id == ItemId(corpus_item.id, Lit.sfx_n, idx)
        item    == [n \in {Lit.item_id, Lit.citation, Lit.description} |->
                      CASE n = Lit.item_id -> PyStr(item_id)
                        [] n = Lit.citation ->
                             Get(corpus_item.data, Lit.text, PyStr(<<>>))
                        [] OTHER -> notes[idx]]
        nodes   == chain_list[idx].nodes
        src     == Strip(nodes[1])
        rel     == Strip(nodes[2])
        tgt     == Strip(nodes[3])
        triple  == Len(nodes) >= 3
        next    ==
          [acc EXCEPT
             !.items = Append(@, item),
             !.from_source = Append(@, [item_id |-> item_id, ref |-> source_ref]),
             !.mentions =
                IF triple
                  THEN @ \o <<[item_id |-> item_id, concept |-> PyStr(src), order |-> 1],
                              [item_id |-> item_id, concept |-> PyStr(tgt), order |-> 2]>>
                  ELSE @,
             !.chains =
                IF triple
                  THEN Append(@, [source      |-> src,
                                  target      |-> tgt,
                                  type        |-> RelType(rel),
                                  description |-> Get(relation_definitions, rel, <<>>),
                                  item_id     |-> item_id])
                  ELSE @]
    IN ChainPairs(next, idx + 1, notes, chain_list, corpus_item, source_ref,
                  relation_definitions)

\* The code branch for one corpus record (lines 606-640).
RECURSIVE CodeItems(_, _, _, _, _, _, _)
CodeItems(acc, idx, code_list, descriptions, base_text, corpus_item, source_ref) ==
  IF idx > Len(code_list) THEN acc
  ELSE
    LET item_id == ItemId(corpus_item.id, Lit.sfx_c, idx)
        item    == [n \in {Lit.item_id, Lit.citation, Lit.description} |->
                      CASE n = Lit.item_id -> PyStr(item_id)
                        [] n = Lit.citation -> base_text
                        [] OTHER -> IF idx <= Len(descriptions)
                                      THEN descriptions[idx]
                                      ELSE PyStr(<<>>)]
        next    ==
          [acc EXCEPT
             !.items = Append(@, item),
             !.from_source = Append(@, [item_id |-> item_id, ref |-> source_ref]),
             !.mentions = Append(@, [item_id |-> item_id,
                                     concept |-> code_list[idx],
                                     order   |-> 1])]
    IN CodeItems(next, idx + 1, code_list, descriptions, base_text, corpus_item,
                 source_ref)

BaseTextKeys == <<Lit.ordem_1a, Lit.text, Lit.citation>>

\* One iteration of the loop over the corpus (lines 557-640).
CorpusStep(acc, corpus_item, bibliography, relation_definitions, code_field_names, source_fields) ==
  LET source_ref == LStrip(corpus_item.source_ref, "@")
      data       == corpus_item.data
      present(k) == k \in DOMAIN data /\ Truthy(data[k])
      withSource ==
        IF source_ref \notin acc.seen_refs
          THEN [acc EXCEPT
                  !.sources = Append(@, _build_source_props(source_ref, corpus_item,
                                                            bibliography, source_fields)),
                  !.seen_refs = @ \cup {source_ref}]
          ELSE acc
      has_chain  == present(Lit.chain)
      withCode   == {i \in DOMAIN code_field_names : present(code_field_names[i])}
      has_code   == withCode # {}
  IN IF has_chain
       THEN ChainPairs(withSource, 1, Get(data, Lit.note, PyList(<<>>)).v,
                       data[Lit.chain].v, corpus_item, source_ref, relation_definitions)
     ELSE IF has_code
       THEN LET code_field == code_field_names[CHOOSE i \in withCode :
                                                  \A j \in withCode : i <= j]
                raw_codes  == data[code_field]
                code_list  == IF raw_codes.t = "list" THEN raw_codes.v ELSE <<raw_codes>>
                raw_descr  == PyOr(Get(data, Lit.justificativa_interna, PyList(<<>>)),
                                   Get(data, Lit.descricao, PyList(<<>>)))
                descriptions ==
                  IF raw_descr.t = "list" THEN raw_descr.v
                  ELSE [i \in DOMAIN code_list |-> raw_descr]
                textKeys   == {i \in DOMAIN BaseTextKeys : present(BaseTextKeys[i])}
                base_text  ==
                  IF textKeys = {} THEN PyStr(<<>>)
                  ELSE LET val == data[BaseTextKeys[CHOOSE i \in textKeys :
                                                       \A j \in textKeys : i <= j]]
                       IN IF val.t = "list" THEN val.v[1] ELSE val
            IN CodeItems(withSource, 1, code_list, descriptions, base_text,
                         corpus_item, source_ref)
     ELSE withSource

RECURSIVE CorpusLoop(_, _, _, _, _, _)
CorpusLoop(acc, corpus, bibliography, relation_definitions, code_field_names, source_fields) ==
  IF corpus = <<>> THEN acc
  ELSE CorpusLoop(CorpusStep(acc, Head(corpus), bibliography, relation_definitions,
                             code_field_names, source_fields),
                  Tail(corpus), bibliography, relation_definitions, code_field_names,
                  source_fields)

_extract_corpus_data(corpus, bibliography, relation_definitions, code_field_names, source_fields) ==
  CorpusLoop([sources |-> <<>>, items |-> <<>>, mentions |-> <<>>, chains |-> <<>>,
              from_source |-> <<>>, seen_refs |-> {}],
             corpus, bibliography, relation_definitions, code_field_names,
             source_fields)

\* relation_definitions.update(cf.relations) over the chain fields in order:
\* a later field's description of a relation replaces an earlier one's.
RECURSIVE MergeRelations(_)
MergeRelations(chain_fields) ==
  IF chain_fields = <<>> THEN EmptyDict
  ELSE chain_fields[Len(chain_fields)].relations
         @@ MergeRelations(SubSeq(chain_fields, 1, Len(chain_fields) - 1))

\* now is the value of int(time.time()) while the concepts are extracted.
_build_graph_payload(json_data, analysis, now) ==
  LET chain_fields == analysis.chain_fields
      code_fields  == analysis.code_fields
      concept_label ==
        IF chain_fields # <<>>
          THEN sanitize_cypher_label(Capitalize(chain_fields[1].field_name))
        ELSE IF code_fields # <<>>
          THEN sanitize_cypher_label(Capitalize(code_fields[1].field_name))
        ELSE Lit.Concept
      code_field_names == [i \in DOMAIN code_fields |-> code_fields[i].field_name]
      extracted == _extract_corpus_data(json_data.corpus, json_data.bibliography,
                                        MergeRelations(chain_fields), code_field_names,
                                        analysis.source_fields)
  IN [project_name  |-> json_data.project_name,
      concept_label |-> concept_label,
      scalar_fields |-> analysis.scalar_fields,
      graph_fields  |-> analysis.graph_fields,
      chain_fields  |-> chain_fields,
      code_fields   |-> code_fields,
      source_fields |-> analysis.source_fields,
      value_maps    |-> analysis.value_maps,
      concepts      |-> _extract_concepts(json_data.ontology, analysis.scalar_fields,
                                          analysis.graph_fields, analysis.value_maps, now),
      sources       |-> extracted.sources,
      items         |-> extracted.items,
      chains        |-> extracted.chains,
      mentions      |-> extracted.mentions,
      from_source   |-> extracted.from_source]

(***************************************************************************)
(* The graph store.  A node is identified by <<label, key property, key    *)
(* value>>, the pattern every MERGE of the program uses; nodes maps a      *)
(* node to its properties and rels maps <<type, from, to>> to the          *)
(* relationship's properties.  A constraint is [name, label, prop]; an     *)
(* index is [name, owner], owner being the name of the constraint that     *)
(* owns it, or <<>>.                                                       *)
(***************************************************************************)
EmptyGraph == [nodes |-> <<>>, rels |-> <<>>]

EmptyStore == [constraints |-> {}, indexes |-> {}, nodes |-> <<>>, rels |-> <<>>]

NodeId(label, key, value) == <<label, key, value>>

\* CREATE CONSTRAINT ... FOR (n:label) REQUIRE n.prop IS UNIQUE: the
\* constraint, under the name the store gives it, and the index it owns.
UniqueConstraint(label, prop) ==
  [name |-> label \o <<"_">> \o prop, label |-> label, prop |-> prop]

OwnedIndex(constraint) == [name |-> constraint.name, owner |-> constraint.name]

\* SET n += row: a null value removes the property.
SetProps(old, row) ==
  LET merged == row @@ old
  IN [k \in {j \in DOMAIN merged : merged[j] # PyNone} |-> merged[k]]

\* MERGE (n:label {key: value}) followed by SET n += row
MergeNode(g, id, row) ==
  LET old == IF id \in DOMAIN g.nodes THEN g.nodes[id] ELSE (id[2] :> id[3])
  IN [g EXCEPT !.nodes = (id :> SetProps(old, row)) @@ @]

\* MERGE (a)-[r:type]->(b) followed by SET r += row, for matched a and b
MergeRel(g, type, a, b, row) ==
  IF a \in DOMAIN g.nodes /\ b \in DOMAIN g.nodes
    THEN LET id  == <<type, a, b>>
             old == IF id \in DOMAIN g.rels THEN g.rels[id] ELSE EmptyDict
         IN [g EXCEPT !.rels = (id :> SetProps(old, row)) @@ @]
    ELSE g

\* UNWIND $rows AS row <step>: the rows are applied in order.
Unwind(g, rows, step(_, _)) ==
  LET after[i \in 0..Len(rows)] == IF i = 0 THEN g ELSE step(after[i - 1], rows[i])
  IN after[Len(rows)]

Stamp(now) == Lit.last_updated :> PyInt(now)

\* lines 763-767
SourcesQuery(g, sources, now) ==
  LET step(h, row) ==
        MergeNode(h, NodeId(Lit.Source, Lit.bibtex, row[Lit.bibtex]), Stamp(now) @@ row)
  IN Unwind(g, sources, step)

\* lines 773-777
ItemsQuery(g, items, now) ==
  LET step(h, row) ==
        MergeNode(h, NodeId(Lit.Item, Lit.item_id, row[Lit.item_id]), Stamp(now) @@ row)
  IN Unwind(g, items, step)

\* lines 784-789
FromSourceQuery(g, from_source) ==
  LET step(h, row) ==
        MergeRel(h, Lit.FROM_SOURCE,
                 NodeId(Lit.Item, Lit.item_id, PyStr(row.item_id)),
                 NodeId(Lit.Source, Lit.bibtex, PyStr(row.ref)), EmptyDict)
  IN Unwind(g, from_source, step)

\* lines 910-914
ConceptNodesQuery(g, concepts, concept_label) ==
  LET step(h, row) ==
        MergeNode(h, NodeId(concept_label, Lit.name, row.props[Lit.name]), row.props)
  IN Unwind(g, concepts, step)

\* lines 921-925
ChainStubsQuery(g, chains, concept_label) ==
  LET step(h, row) ==
        MergeNode(MergeNode(h, NodeId(concept_label, Lit.name, PyStr(row.source)),
                            EmptyDict),
                  NodeId(concept_label, Lit.name, PyStr(row.target)), EmptyDict)
  IN Unwind(g, chains, step)

\* lines 928-936
RelatesToQuery(g, chains, concept_label) ==
  LET step(h, row) ==
        MergeRel(h, Lit.RELATES_TO,
                 NodeId(concept_label, Lit.name, PyStr(row.source)),
                 NodeId(concept_label, Lit.name, PyStr(row.target)),
                 [k \in {Lit.type, Lit.description, Lit.item_id} |->
                    CASE k = Lit.type -> PyStr(row.type)
                      [] k = Lit.description -> PyStr(row.description)
                      [] OTHER -> PyStr(row.item_id)])
  IN Unwind(g, chains, step)

\* UNWIND row.relations[field] AS val MERGE (t:label {name: val})
\* MERGE (c)-[:rel_type]->(t), for one matched concept c (lines 839-841)
RECURSIVE TaxonomyLinks(_, _, _, _, _)
TaxonomyLinks(g, vals, c, label, rel_type) ==
  IF vals = <<>> THEN g
  ELSE LET t == NodeId(label, Lit.name, Head(vals))
       IN TaxonomyLinks(MergeRel(MergeNode(g, t, EmptyDict), rel_type, c, t, EmptyDict),
                        Tail(vals), c, label, rel_type)

\* lines 834-843, for one taxonomy field
TaxonomyQuery(g, concepts, field_name, label, rel_type, concept_label) ==
  LET step(h, row) ==
        LET c == NodeId(concept_label, Lit.name, row.props[Lit.name])
        IN IF field_name \in DOMAIN row.relations /\ c \in DOMAIN h.nodes
             THEN TaxonomyLinks(h, row.relations[field_name], c, label, rel_type)
             ELSE h
  IN Unwind(g, concepts, step)

\* lines 848-857 and 861-870: topic -> other taxonomy mapping
TopicMappingQuery(g, concepts, other_field, other_label, rel_type) ==
  LET pairs(row) ==
        IF Lit.topic \in DOMAIN row.relations /\ other_field \in DOMAIN row.relations
          THEN {<<tv, ov>> : tv \in Range(row.relations[Lit.topic]),
                             ov \in Range(row.relations[other_field])}
          ELSE {}
      all == UNION {pairs(concepts[i]) : i \in DOMAIN concepts}
      candidates == {<<rel_type, NodeId(Lit.Topic, Lit.name, p[1]),
                       NodeId(other_label, Lit.name, p[2])>> : p \in all}
      new == {r \in candidates : r[2] \in DOMAIN g.nodes /\ r[3] \in DOMAIN g.nodes}
  IN [g EXCEPT !.rels = @ @@ [r \in new |-> EmptyDict]]

\* lines 875-881
IsLinkedToQuery(g, concept_label, now) ==
  LET topics == {n \in DOMAIN g.nodes : n[1] = Lit.Topic}
      paths(t1, t2) ==
        {<<f1, f2>> \in (DOMAIN g.nodes) \X (DOMAIN g.nodes) :
           /\ f1[1] = concept_label /\ f2[1] = concept_label
           /\ <<Lit.GROUPED_BY, f1, t1>> \in DOMAIN g.rels
           /\ <<Lit.RELATES_TO, f1, f2>> \in DOMAIN g.rels
           /\ <<Lit.GROUPED_BY, f2, t2>> \in DOMAIN g.rels}
      linked == {<<t1, t2>> \in topics \X topics : t1 # t2 /\ paths(t1, t2) # {}}
      props(t1, t2, old) ==
        (Lit.strength :> PyInt(Cardinality(paths(t1, t2)))) @@ Stamp(now) @@ old
  IN [g EXCEPT !.rels =
        [r \in {<<Lit.IS_LINKED_TO, p[1], p[2]>> : p \in linked} |->
           props(r[2], r[3], IF r \in DOMAIN @ THEN @[r] ELSE EmptyDict)] @@ @]

\* lines 888-894
MentionsQuery(g, mentions, concept_label) ==
  LET step(h, row) ==
        MergeRel(h, Lit.MENTIONS,
                 NodeId(Lit.Item, Lit.item_id, PyStr(row.item_id)),
                 NodeId(concept_label, Lit.name, row.concept),
                 Lit.order :> PyInt(row.order))
  IN Unwind(g, mentions, step)

(***************************************************************************)
(* The compiled snapshots the pipeline is run on.                          *)
(***************************************************************************)
FieldSpec(name, scope, type) ==
  [name |-> name, scope |-> scope, type |-> type, values |-> <<>>,
   relations |-> EmptyDict, description |-> <<>>]

ConceptEntry(name, fields) ==
  [name |-> name, description |-> PyStr(<<"d">>), fields |-> fields]

CorpusItem(id, source_ref, data) ==
  [id |-> id, source_ref |-> source_ref, data |-> data, source_metadata |-> EmptyDict]

\* A chain template with the three semantic taxonomies.
ChainSnapshot ==
  [project_name |-> <<"p","_","1">>,
   template |->
     <<FieldSpec(Lit.topic, Lit.ONTOLOGY, Lit.TOPIC),
       [FieldSpec(Lit.aspect, Lit.ONTOLOGY, Lit.ORDERED) EXCEPT
          !.values = <<[index |-> 1, label |-> <<"h","i">>]>>],
       FieldSpec(Lit.dimension, Lit.ONTOLOGY, Lit.ENUMERATED),
       [FieldSpec(Lit.chain, Lit.ITEM, Lit.CHAIN) EXCEPT
          !.relations = (<<"u","s","e","s">> :> <<"r">>)]>>,
   ontology |->
     <<ConceptEntry(<<"A">>, (Lit.topic :> PyStr(<<"T">>)) @@ (Lit.aspect :> PyInt(1))
                               @@ (Lit.dimension :> PyStr(<<"D">>))),
       ConceptEntry(<<"B">>, (Lit.topic :> PyStr(<<"V">>)))>>,
   corpus |->
     <<CorpusItem(<<"i","1">>, <<"@","X">>,
                  (Lit.chain :> PyList(<<[nodes |-> <<<<"A">>, <<"u","s","e","s">>, <<"B"," ">>>>]>>))
                    @@ (Lit.note :> PyList(<<PyStr(<<"n">>)>>))
                    @@ (Lit.text :> PyStr(<<"c">>)))>>,
   bibliography |-> (<<"X">> :> (Lit.title :> PyStr(<<"t">>)))]

\* A code template whose taxonomy field names are a valid one, one with a
\* ";", one with a non-ASCII letter and one starting with a digit.
CodeSnapshot ==
  [project_name |-> <<"p">>,
   template |->
     <<FieldSpec(<<"t","o",";","p","i","c">>, Lit.ONTOLOGY, Lit.TOPIC),
       FieldSpec(<<"l","v","l">>, Lit.ONTOLOGY, Lit.TOPIC),
       FieldSpec(<<"c","l","eacute">>, Lit.ONTOLOGY, Lit.TOPIC),
       FieldSpec(<<"1","s","t">>, Lit.ONTOLOGY, Lit.TOPIC),
       FieldSpec(<<"c","o","d","e">>, Lit.ITEM, Lit.CODE)>>,
   ontology |->
     <<ConceptEntry(<<"A">>, (<<"t","o",";","p","i","c">> :> PyStr(<<"T">>))
                               @@ (<<"l","v","l">> :> PyStr(<<"L">>))
                               @@ (<<"c","l","eacute">> :> PyStr(<<"K">>))
                               @@ (<<"1","s","t">> :> PyStr(<<"F">>))),
       ConceptEntry(<<"B">>, (<<"l","v","l">> :> PyStr(<<"L">>)))>>,
   corpus |->
     <<CorpusItem(<<"i","1">>, <<"X">>,
                  (<<"c","o","d","e">> :> PyList(<<PyStr(<<"A">>), PyStr(<<"Z">>)>>)))>>,
   bibliography |-> EmptyDict]

\* A code template whose code field name holds a non-ASCII letter, with no
\* taxonomy; two records cite the same source.
AccentSnapshot ==
  [project_name |-> <<"9">>,
   template |-> <<FieldSpec(<<"c","l","eacute">>, Lit.ITEM, Lit.CODE)>>,
   ontology |-> <<ConceptEntry(<<"A">>, EmptyDict), ConceptEntry(<<"B">>, EmptyDict)>>,
   corpus |->
     <<CorpusItem(<<"i","1">>, <<"X">>, (<<"c","l","eacute">> :> PyStr(<<"A">>))),
       CorpusItem(<<"i","2">>, <<"X">>, (<<"c","l","eacute">> :> PyStr(<<"B">>)))>>,
   bibliography |-> EmptyDict]

\* An empty project.
EmptySnapshot ==
  [project_name |-> <<>>, template |-> <<>>, ontology |-> <<>>, corpus |-> <<>>,
   bibliography |-> EmptyDict]

\* A code template with one record: one source, one item, one concept.
LoneSnapshot ==
  [project_name |-> <<"p">>,
   template |-> <<FieldSpec(Lit.code, Lit.ITEM, Lit.CODE)>>,
   ontology |-> <<ConceptEntry(<<"A">>, EmptyDict)>>,
   corpus |-> <<CorpusItem(<<"i","1">>, <<"X">>, (Lit.code :> PyStr(<<"A">>)))>>,
   bibliography |-> EmptyDict]

\* A code template with a taxonomy field whose name differs from the code
\* field's in case only, so that both give the label "Code"; the second code
\* of the record is a value of the taxonomy and names no concept.
SharedLabelSnapshot ==
  [project_name |-> <<"p">>,
   template |-> <<FieldSpec(<<"C","o","d","e">>, Lit.ONTOLOGY, Lit.TOPIC),
                  FieldSpec(Lit.code, Lit.ITEM, Lit.CODE)>>,
   ontology |-> <<ConceptEntry(<<"A">>, (<<"C","o","d","e">> :> PyStr(<<"Z">>)))>>,
   corpus |->
     <<CorpusItem(<<"i","1">>, <<"X">>,
                  (Lit.code :> PyList(<<PyStr(<<"A">>), PyStr(<<"Z">>)>>)))>>,
   bibliography |-> EmptyDict]

Snapshots ==
  {ChainSnapshot, CodeSnapshot, AccentSnapshot, LoneSnapshot, SharedLabelSnapshot,
   EmptySnapshot}

\* What the target database may hold before the first run: another
\* project's constraint, indexes, nodes and relationship.
LegacyStore ==
  LET old == NodeId(<<"O","l","d">>, Lit.name, PyStr(<<"A">>))
      src == NodeId(Lit.Source, Lit.bibtex, PyStr(<<"X">>))
  IN [constraints |-> {UniqueConstraint(<<"O","l","d">>, Lit.name)},
      indexes     |-> {OwnedIndex(UniqueConstraint(<<"O","l","d">>, Lit.name)),
                       [name |-> <<"o","l","d">>, owner |-> <<>>]},
      nodes       |-> (old :> (Lit.name :> PyStr(<<"A">>)))
                        @@ (src :> ((Lit.bibtex :> PyStr(<<"X">>))
                                      @@ (Lit.degree :> PyInt(7)))),
      rels        |-> (<<Lit.MENTIONS, old, src>> :> EmptyDict)]

\* The server before the first run: whether it supports several databases
\* (Enterprise, Aura) or one (Community), whether the target database is
\* there, and what that database holds.
Deployments ==
  {[multi |-> TRUE,  exists |-> TRUE,  store |-> LegacyStore],
   [multi |-> TRUE,  exists |-> FALSE, store |-> EmptyStore],
   [multi |-> FALSE, exists |-> FALSE, store |-> EmptyStore]}

(***************************************************************************)
(* The pipeline (run_pipeline, lines 1402-1494) as a state machine.        *)
(***************************************************************************)
VARIABLES
  json_data,  \* the compiled snapshot of the project
  pc,         \* the statement of run_pipeline (or of a callee) to run next
  payload,    \* the GraphPayload, once compile_project has built it
  store,      \* the committed state of the target database
  tx,         \* the open transaction's view of the graph
  todo,       \* what is left of the loop being run
  issued,     \* the statements sent to the store in this run, in order
  calls,      \* the stages of run_pipeline entered in this run, in order
  result,     \* the PipelineResult, once returned
  reports,    \* the reporter's events of this run, in order
  clock,      \* the current time
  run,        \* the number of this run
  before,     \* <<the store when sync_to_neo4j was called>>, in this run
  synced,     \* the store each time sync_to_neo4j returned None, over the runs
  server,     \* the server's databases: [multi, exists]
  catalog,    \* the analytics plugin's projection catalog
  args,       \* the argument of a function that is called on its own
  ret         \* what that function returned

vars == <<json_data, pc, payload, store, tx, todo, issued, calls, result, reports,
          clock, run, before, synced, server, catalog, args, ret>>

MaxRuns == 2

NoPayload == <<>>

NoTx == [open |-> FALSE, g |-> EmptyGraph]

NoResult == [done |-> FALSE, success |-> FALSE, type |-> "", stage |-> "", details |-> ""]

Success == [done |-> TRUE, success |-> TRUE, type |-> "", stage |-> "", details |-> ""]

\* PipelineResult(success=False, error=<type>(stage=stage, details=details))
Failure(type, stage, details) ==
  [done |-> TRUE, success |-> FALSE, type |-> type, stage |-> stage, details |-> details]

NoProjection == [exists |-> FALSE, nodes |-> {}, rels |-> 0]

NoCall == [fn |-> "", in |-> <<>>]

NoReturn == [done |-> FALSE, out |-> <<>>]

Init ==
  /\ json_data \in Snapshots
  /\ \E d \in Deployments :
       /\ store = d.store
       /\ server = [multi |-> d.multi, exists |-> d.exists]
  /\ pc = "start"
  /\ payload = NoPayload
  /\ tx = NoTx
  /\ todo = <<>>
  /\ issued = <<>>
  /\ calls = <<>>
  /\ result = NoResult
  /\ reports = <<>>
  /\ clock = 0
  /\ run = 1
  /\ before = <<>>
  /\ synced = <<>>
  /\ catalog = NoProjection
  /\ args = NoCall
  /\ ret = NoReturn

\* A statement: the query's kind, the identifiers spliced into its text as
\* labels or relationship types, the field names spliced as map keys, a
\* name taken from the store, whether it runs in the open transaction, and
\* whether the store accepted it.
Statement(kind, ids, keys, arg, ok) ==
  [kind |-> kind, ids |-> ids, keys |-> keys, arg |-> arg, tx |-> tx.open, ok |-> ok]

Event(level, text) == [level |-> level, text |-> text]

\* _StepContext.__exit__ (lines 296-303)
StepExit(description, raised) ==
  IF raised THEN Event("error", description) ELSE Event("success", description)

\* lines 1418-1427
Validate ==
  /\ pc = "start"
  /\ \E exists \in BOOLEAN :
       IF exists
         THEN pc' = "compile" /\ UNCHANGED result
         ELSE pc' = "done" /\ result' = Failure("CompilationError", "validation", "path")
  /\ UNCHANGED <<args, ret, json_data, payload, store, tx, todo, issued, calls, reports, clock,
                 run, before, synced, server, catalog>>

\* compile_project (lines 371-423) inside the step of lines 1430-1435;
\* success is the compiler's verdict.
Compile ==
  /\ pc = "compile"
  /\ calls' = Append(calls, [call |-> "compile_project", arg |-> <<>>])
  /\ \E success \in BOOLEAN :
       IF success
         THEN /\ payload' = _build_graph_payload(json_data,
                                                 analyze_template(json_data.template),
                                                 clock)
              /\ reports' = reports \o <<Event("info", "Starting Synesis compiler"),
                                         Event("success", "Compilation OK"),
                                         StepExit("Compiling Project", FALSE)>>
              /\ pc' = "config"
              /\ UNCHANGED result
         ELSE /\ reports' = reports \o <<Event("info", "Starting Synesis compiler"),
                                         StepExit("Compiling Project", FALSE)>>
              /\ result' = Failure("CompilationError", "compilation", "")
              /\ pc' = "done"
              /\ UNCHANGED payload
  /\ UNCHANGED <<args, ret, json_data, store, tx, todo, issued, clock, run, before, synced,
                 server, catalog>>

\* A run_pipeline whose configuration step records the error and goes on to
\* the connection instead of returning.
LoadConfigContinues ==
  /\ pc = "config"
  /\ calls' = Append(calls, [call |-> "load_config", arg |-> <<>>])
  /\ reports' = Append(reports, StepExit("Loading Configuration", FALSE))
  /\ \E outcome \in {"ok", "Configuration file not found", "Incomplete configuration",
                     "Error reading configuration"} :
       IF outcome = "ok"
         THEN pc' = "driver" /\ UNCHANGED result
         ELSE pc' = "driver" /\ result' = Failure("ConnectionError", "config", outcome)
  /\ UNCHANGED <<args, ret, json_data, payload, store, tx, todo, issued, clock, run, before,
                 synced, server, catalog>>

\* load_config (lines 1317-1349) inside the step of lines 1438-1442
LoadConfig ==
  /\ pc = "config"
  /\ calls' = Append(calls, [call |-> "load_config", arg |-> <<>>])
  /\ reports' = Append(reports, StepExit("Loading Configuration", FALSE))
  /\ \E outcome \in {"ok", "Configuration file not found", "Incomplete configuration",
                     "Error reading configuration"} :
       IF outcome = "ok"
         THEN pc' = "driver" /\ UNCHANGED result
         ELSE pc' = "done" /\ result' = Failure("ConnectionError", "config", outcome)
  /\ UNCHANGED <<args, ret, json_data, payload, store, tx, todo, issued, clock, run, before,
                 synced, server, catalog>>

\* The except clause of run_pipeline (lines 1476-1484).
ConnectionFailed(cause) == Failure("ConnectionError", "connection", cause)

\* lines 1445-1460: the driver is imported and opened.
Connect ==
  /\ pc = "driver"
  /\ \E outcome \in {"ok", "pip install neo4j", "unreachable"} :
       CASE outcome = "ok" ->
              /\ calls' = Append(calls, [call |-> "GraphDatabase.driver", arg |-> <<>>])
              /\ reports' = Append(reports, Event("info", "Target database"))
              /\ pc' = "ensure_show"
              /\ UNCHANGED result
         [] outcome = "pip install neo4j" ->
              /\ result' = ConnectionFailed(outcome)
              /\ pc' = "done"
              /\ UNCHANGED <<calls, reports>>
         [] OTHER ->
              /\ calls' = Append(calls, [call |-> "GraphDatabase.driver", arg |-> <<>>])
              /\ reports' = Append(reports, Event("info", "Target database"))
              /\ result' = ConnectionFailed(outcome)
              /\ pc' = "done"
  /\ UNCHANGED <<args, ret, json_data, payload, store, tx, todo, issued, clock, run, before,
                 synced, server, catalog>>

\* db_name of line 1456, sanitized again at line 1362
TargetDatabase == sanitize_database_name(sanitize_database_name(payload.project_name))

RECURSIVE SetToSeq(_)
SetToSeq(S) ==
  IF S = {} THEN <<>>
  ELSE LET x == CHOOSE y \in S : TRUE IN <<x>> \o SetToSeq(S \ {x})

\* ensure_database_exists, lines 1362-1368 and 1376-1389: the administrative
\* session lists the databases.
EnsureShow ==
  /\ pc = "ensure_show"
  /\ calls' = Append(calls, [call |-> "ensure_database_exists", arg |-> TargetDatabase])
  /\ \E ok \in BOOLEAN :
       /\ issued' = Append(issued, Statement("SHOW DATABASES", <<>>, <<>>, <<>>, ok))
       /\ CASE ok /\ server.exists ->
                 /\ reports' = reports \o <<Event("info", "Database already exists"),
                                            StepExit("Checking/Creating Database", FALSE)>>
                 /\ pc' = "session"
                 /\ UNCHANGED result
            [] ok /\ ~server.exists ->
                 /\ reports' = Append(reports, Event("info", "Creating database"))
                 /\ pc' = "ensure_create"
                 /\ UNCHANGED result
            [] OTHER ->
                 /\ reports' = Append(reports, StepExit("Checking/Creating Database", FALSE))
                 /\ result' = Failure("SyncError", "database_setup", "error")
                 /\ pc' = "done"
  /\ UNCHANGED <<args, ret, json_data, payload, store, tx, todo, clock, run, before, synced,
                 server, catalog>>

\* ensure_database_exists, lines 1370-1375 and 1379-1389: a server with one
\* database answers "Unsupported administration command".
EnsureCreate ==
  /\ pc = "ensure_create"
  /\ \E outcome \in IF server.multi THEN {"ok", "error"} ELSE {"Unsupported"} :
       /\ issued' = Append(issued, Statement("CREATE DATABASE", <<>>, <<>>,
                                             TargetDatabase, outcome = "ok"))
       /\ CASE outcome = "ok" ->
                 /\ server' = [server EXCEPT !.exists = TRUE]
                 /\ reports' = Append(reports, StepExit("Checking/Creating Database", FALSE))
                 /\ pc' = "session"
                 /\ UNCHANGED result
            [] outcome = "Unsupported" ->
                 /\ reports' = reports \o <<Event("warning", "Multi-database not supported"),
                                            StepExit("Checking/Creating Database", FALSE)>>
                 /\ pc' = "session"
                 /\ UNCHANGED <<result, server>>
            [] OTHER ->
                 /\ reports' = Append(reports, StepExit("Checking/Creating Database", FALSE))
                 /\ result' = Failure("SyncError", "database_setup", outcome)
                 /\ pc' = "done"
                 /\ UNCHANGED server
  /\ UNCHANGED <<args, ret, json_data, payload, store, tx, todo, calls, clock, run, before,
                 synced, catalog>>

\* lines 1468-1470: the data session is opened and sync_to_neo4j is called.
OpenSession ==
  /\ pc = "session"
  /\ calls' = calls \o <<[call |-> "driver.session", arg |-> TargetDatabase],
                         [call |-> "sync_to_neo4j", arg |-> <<>>]>>
  /\ before' = <<store>>
  /\ pc' = "show_constraints"
  /\ UNCHANGED <<args, ret, json_data, payload, store, tx, todo, issued, result, reports, clock,
                 run, synced, server, catalog>>

\* An except clause that reports the error and lets the failed statement be
\* sent again.
SyncFailedRetries(cause) ==
  /\ result' = Failure("SyncError", "sync", cause)
  /\ reports' = Append(reports, StepExit("Synchronizing Graph", FALSE))
  /\ tx' = NoTx
  /\ pc' = pc

\* sync_to_neo4j's except clause (lines 719-724), the transaction's context
\* manager closing the transaction unfinished, and run_pipeline returning
\* the error from inside its step (lines 1469-1472).
SyncFailed(cause) ==
  /\ result' = Failure("SyncError", "sync", cause)
  /\ reports' = Append(reports, StepExit("Synchronizing Graph", FALSE))
  /\ tx' = NoTx
  /\ pc' = "done"

\* A statement of sync_to_neo4j that the store accepts: control moves on.
SyncContinues(next) ==
  /\ pc' = next
  /\ UNCHANGED <<result, reports>>

\* clear_database, line 681: the first statement of the session opened at
\* line 1468, which the server rejects when it has no such database.
ShowConstraints ==
  /\ pc = "show_constraints"
  /\ \E ok \in {b \in BOOLEAN : b => server.exists} :
       /\ issued' = Append(issued, Statement("SHOW CONSTRAINTS", <<>>, <<>>, <<>>, ok))
       /\ IF ok
            THEN /\ todo' = SetToSeq({c.name : c \in store.constraints})
                 /\ SyncContinues(IF store.constraints = {} THEN "show_indexes"
                                  ELSE "drop_constraints")
                 /\ UNCHANGED tx
            ELSE SyncFailed("SHOW CONSTRAINTS") /\ UNCHANGED todo
  /\ UNCHANGED <<args, ret, json_data, payload, store, calls, clock, run, before, synced, server, catalog>>

\* A DROP CONSTRAINT that leaves the constraint's index behind.
DropConstraintKeepIndex(db, name) ==
  [db EXCEPT !.constraints = {c \in @ : c.name # name}]

\* DROP CONSTRAINT name IF EXISTS: the constraint goes, and the index it owns.
DropConstraintQuery(db, name) ==
  [db EXCEPT !.constraints = {c \in @ : c.name # name},
             !.indexes = {i \in @ : i.owner # name}]

\* clear_database, lines 682-685: one iteration
DropConstraint ==
  /\ pc = "drop_constraints"
  /\ \E ok \in BOOLEAN :
       /\ issued' = Append(issued, Statement("DROP CONSTRAINT", <<>>, <<>>, Head(todo), ok))
       /\ IF ok
            THEN /\ store' = DropConstraintQuery(store, Head(todo))
                 /\ todo' = Tail(todo)
                 /\ SyncContinues(IF Tail(todo) = <<>> THEN "show_indexes"
                                  ELSE "drop_constraints")
                 /\ UNCHANGED tx
            ELSE SyncFailed("DROP CONSTRAINT") /\ UNCHANGED <<store, todo>>
  /\ UNCHANGED <<args, ret, json_data, payload, calls, clock, run, before, synced, server, catalog>>

\* clear_database, line 688
ShowIndexes ==
  /\ pc = "show_indexes"
  /\ \E ok \in BOOLEAN :
       /\ issued' = Append(issued, Statement("SHOW INDEXES", <<>>, <<>>, <<>>, ok))
       /\ IF ok
            THEN /\ todo' = SetToSeq(store.indexes)
                 /\ SyncContinues(IF store.indexes = {} THEN "delete_all"
                                  ELSE "drop_indexes")
                 /\ UNCHANGED tx
            ELSE SyncFailed("SHOW INDEXES") /\ UNCHANGED todo
  /\ UNCHANGED <<args, ret, json_data, payload, store, calls, clock, run, before, synced, server, catalog>>

\* clear_database, lines 689-693: one iteration; an index owned by a
\* constraint is passed over.
DropIndex ==
  /\ pc = "drop_indexes"
  /\ LET idx  == Head(todo)
         next == IF Tail(todo) = <<>> THEN "delete_all" ELSE "drop_indexes"
     IN IF idx.owner = <<>>
          THEN \E ok \in BOOLEAN :
                 /\ issued' = Append(issued, Statement("DROP INDEX", <<>>, <<>>,
                                                       idx.name, ok))
                 /\ IF ok
                      THEN /\ store' = [store EXCEPT !.indexes = @ \ {idx}]
                           /\ todo' = Tail(todo)
                           /\ SyncContinues(next)
                           /\ UNCHANGED tx
                      ELSE SyncFailed("DROP INDEX") /\ UNCHANGED <<store, todo>>
          ELSE /\ todo' = Tail(todo)
               /\ SyncContinues(next)
               /\ UNCHANGED <<store, tx, issued>>
  /\ UNCHANGED <<args, ret, json_data, payload, calls, clock, run, before, synced, server, catalog>>

\* A delete that removes the relationships and leaves the nodes.
DeleteRelationshipsOnly(db) == [db EXCEPT !.rels = <<>>]

\* MATCH (n) DETACH DELETE n
DeleteAllQuery(db) == [db EXCEPT !.nodes = <<>>, !.rels = <<>>]

\* clear_database, line 696, then _create_constraints is entered (line 730)
DeleteAll ==
  /\ pc = "delete_all"
  /\ \E ok \in BOOLEAN :
       /\ issued' = Append(issued, Statement("DETACH DELETE", <<>>, <<>>, <<>>, ok))
       /\ IF ok
            THEN /\ store' = DeleteAllQuery(store)
                 /\ todo' = get_taxonomy_labels(payload.graph_fields)
                 /\ SyncContinues(IF payload.graph_fields = <<>> THEN "source_constraint"
                                  ELSE "taxonomy_constraints")
                 /\ UNCHANGED tx
            ELSE SyncFailed("DETACH DELETE") /\ UNCHANGED <<store, todo>>
  /\ UNCHANGED <<args, ret, json_data, payload, calls, clock, run, before, synced, server, catalog>>

\* CREATE CONSTRAINT IF NOT EXISTS FOR (n:label) REQUIRE n.prop IS UNIQUE
CreateConstraintQuery(db, label, prop) ==
  IF \E c \in db.constraints : c.label = label /\ c.prop = prop THEN db
  ELSE [db EXCEPT !.constraints = @ \cup {UniqueConstraint(label, prop)},
                  !.indexes = @ \cup {OwnedIndex(UniqueConstraint(label, prop))}]

\* One guarded CREATE CONSTRAINT of _create_constraints: the statement is
\* sent when guard holds and passed over otherwise.
DeclareConstraint(guard, label, prop, next, rest) ==
  IF guard
    THEN \E ok \in BOOLEAN :
           /\ issued' = Append(issued, Statement("CREATE CONSTRAINT", <<label>>, <<>>,
                                                 <<>>, ok))
           /\ IF ok
                THEN /\ store' = CreateConstraintQuery(store, label, prop)
                     /\ todo' = rest
                     /\ SyncContinues(next)
                     /\ UNCHANGED tx
                ELSE SyncFailed("CREATE CONSTRAINT") /\ UNCHANGED <<store, todo>>
    ELSE /\ todo' = rest
         /\ SyncContinues(next)
         /\ UNCHANGED <<store, tx, issued>>

\* _create_constraints, lines 730-734: one iteration
TaxonomyConstraint ==
  /\ pc = "taxonomy_constraints"
  /\ DeclareConstraint(validate_cypher_label(Head(todo)), Head(todo), Lit.name,
                       IF Tail(todo) = <<>> THEN "source_constraint"
                       ELSE "taxonomy_constraints",
                       Tail(todo))
  /\ UNCHANGED <<args, ret, json_data, payload, calls, clock, run, before, synced, server, catalog>>

\* _create_constraints, line 737
SourceConstraint ==
  /\ pc = "source_constraint"
  /\ DeclareConstraint(TRUE, Lit.Source, Lit.bibtex, "item_constraint", <<>>)
  /\ UNCHANGED <<args, ret, json_data, payload, calls, clock, run, before, synced, server, catalog>>

\* _create_constraints, line 738
ItemConstraint ==
  /\ pc = "item_constraint"
  /\ DeclareConstraint(TRUE, Lit.Item, Lit.item_id, "concept_constraint", <<>>)
  /\ UNCHANGED <<args, ret, json_data, payload, calls, clock, run, before, synced, server, catalog>>

\* _create_constraints, lines 741-744
ConceptConstraint ==
  /\ pc = "concept_constraint"
  /\ DeclareConstraint(validate_cypher_label(payload.concept_label),
                       payload.concept_label, Lit.name, "begin_transaction", <<>>)
  /\ UNCHANGED <<args, ret, json_data, payload, calls, clock, run, before, synced, server, catalog>>

_get_taxonomy_relation(field_name) ==
  CASE Lower(field_name) = Lit.topic -> Lit.GROUPED_BY
    [] Lower(field_name) = Lit.aspect -> Lit.QUALIFIED_BY
    [] Lower(field_name) = Lit.dimension -> Lit.BELONGS_TO
    [] Lower(field_name) = Lit.confidence -> Lit.RATED_AS
    [] OTHER -> Lit.HAS \o Upper(field_name)

\* session.begin_transaction() (line 749)
BeginTransaction ==
  /\ pc = "begin_transaction"
  /\ \E ok \in BOOLEAN :
       /\ issued' = Append(issued, Statement("BEGIN", <<>>, <<>>, <<>>, ok))
       /\ IF ok
            THEN /\ tx' = [open |-> TRUE, g |-> [nodes |-> store.nodes, rels |-> store.rels]]
                 /\ SyncContinues("sync_sources")
            ELSE SyncFailed("BEGIN")
  /\ UNCHANGED <<args, ret, json_data, payload, store, todo, calls, clock, run, before, synced,
                 server, catalog>>

\* One tx.run of _execute_sync_transaction: passed over when skip holds;
\* otherwise the statement is sent, and the store either applies it to the
\* transaction's view (g) or rejects it.
TxRun(skip, kind, ids, keys, g, next, rest) ==
  /\ IF skip
       THEN /\ todo' = rest
            /\ SyncContinues(next)
            /\ UNCHANGED <<tx, issued>>
       ELSE \E ok \in BOOLEAN :
              /\ issued' = Append(issued, Statement(kind, ids, keys, <<>>, ok))
              /\ IF ok
                   THEN /\ tx' = [tx EXCEPT !.g = g]
                        /\ todo' = rest
                        /\ SyncContinues(next)
                   ELSE SyncFailed(kind) /\ UNCHANGED todo
  /\ UNCHANGED <<args, ret, json_data, payload, store, calls, clock, run, before, synced, server, catalog>>

\* _sync_sources (lines 759-767)
SyncSources ==
  /\ pc = "sync_sources"
  /\ TxRun(payload.sources = <<>>, "MERGE Source", <<>>, <<>>,
           SourcesQuery(tx.g, payload.sources, clock), "sync_items", <<>>)

\* _sync_items (lines 770-777)
SyncItems ==
  /\ pc = "sync_items"
  /\ TxRun(payload.items = <<>>, "MERGE Item", <<>>, <<>>,
           ItemsQuery(tx.g, payload.items, clock), "sync_from_source", <<>>)

\* _sync_from_source (lines 780-789)
SyncFromSource ==
  /\ pc = "sync_from_source"
  /\ TxRun(payload.from_source = <<>>, "MERGE FROM_SOURCE", <<>>, <<>>,
           FromSourceQuery(tx.g, payload.from_source), "sync_concepts", <<>>)

\* Where _sync_taxonomies starts (lines 823-827).
TaxonomyEntry ==
  IF payload.concepts = <<>> THEN "sync_mentions"
  ELSE IF payload.graph_fields = <<>> THEN "topic_aspect"
  ELSE "sync_taxonomy"

\* _sync_concepts, lines 909-918
SyncConceptNodes ==
  /\ pc = "sync_concepts"
  /\ TxRun(payload.concepts = <<>>, "MERGE concept", <<payload.concept_label>>, <<>>,
           ConceptNodesQuery(tx.g, payload.concepts, payload.concept_label),
           IF payload.chains = <<>> THEN TaxonomyEntry ELSE "sync_chain_stubs",
           IF payload.chains = <<>> THEN payload.graph_fields ELSE <<>>)

\* _sync_concepts, lines 921-925
SyncChainStubs ==
  /\ pc = "sync_chain_stubs"
  /\ TxRun(FALSE, "MERGE chain concepts",
           <<payload.concept_label, payload.concept_label>>, <<>>,
           ChainStubsQuery(tx.g, payload.chains, payload.concept_label),
           "sync_relates_to", <<>>)

\* _sync_concepts, lines 928-936
SyncRelatesTo ==
  /\ pc = "sync_relates_to"
  /\ TxRun(FALSE, "MERGE RELATES_TO",
           <<payload.concept_label, payload.concept_label>>, <<>>,
           RelatesToQuery(tx.g, payload.chains, payload.concept_label),
           TaxonomyEntry, payload.graph_fields)

\* _sync_taxonomies, lines 827-843: one iteration
SyncTaxonomy ==
  /\ pc = "sync_taxonomy"
  /\ LET field_name == Head(todo)
         label      == sanitize_cypher_label(Capitalize(field_name))
         rel_type   == _get_taxonomy_relation(field_name)
     IN TxRun(~validate_cypher_label(label) \/ ~validate_cypher_label(rel_type),
              "MERGE taxonomy", <<payload.concept_label, label, rel_type>>,
              <<field_name, field_name>>,
              TaxonomyQuery(tx.g, payload.concepts, field_name, label, rel_type,
                            payload.concept_label),
              IF Tail(todo) = <<>> THEN "topic_aspect" ELSE "sync_taxonomy",
              Tail(todo))

\* _sync_taxonomies, lines 847-857
SyncTopicAspect ==
  /\ pc = "topic_aspect"
  /\ TxRun(~(Lit.topic \in Range(payload.graph_fields)
               /\ Lit.aspect \in Range(payload.graph_fields)),
           "MERGE MAPPED_TO_ASPECT", <<>>, <<>>,
           TopicMappingQuery(tx.g, payload.concepts, Lit.aspect, Lit.Aspect,
                             Lit.MAPPED_TO_ASPECT),
           "topic_dimension", <<>>)

\* _sync_taxonomies, lines 860-870
SyncTopicDimension ==
  /\ pc = "topic_dimension"
  /\ TxRun(~(Lit.topic \in Range(payload.graph_fields)
               /\ Lit.dimension \in Range(payload.graph_fields)),
           "MERGE MAPPED_TO_DIMENSION", <<>>, <<>>,
           TopicMappingQuery(tx.g, payload.concepts, Lit.dimension, Lit.Dimension,
                             Lit.MAPPED_TO_DIMENSION),
           "is_linked_to", <<>>)

\* A transaction that commits right after the taxonomy step.
SyncIsLinkedToThenCommit ==
  /\ pc = "is_linked_to"
  /\ TxRun(Lit.topic \notin Range(payload.graph_fields),
           "MERGE IS_LINKED_TO", <<payload.concept_label, payload.concept_label>>, <<>>,
           IsLinkedToQuery(tx.g, payload.concept_label, clock),
           "commit", <<>>)

\* _sync_taxonomies, lines 874-881
SyncIsLinkedTo ==
  /\ pc = "is_linked_to"
  /\ TxRun(Lit.topic \notin Range(payload.graph_fields),
           "MERGE IS_LINKED_TO", <<payload.concept_label, payload.concept_label>>, <<>>,
           IsLinkedToQuery(tx.g, payload.concept_label, clock),
           "sync_mentions", <<>>)

\* _sync_mentions (lines 884-894)
SyncMentions ==
  /\ pc = "sync_mentions"
  /\ TxRun(payload.mentions = <<>>, "MERGE MENTIONS", <<payload.concept_label>>, <<>>,
           MentionsQuery(tx.g, payload.mentions, payload.concept_label),
           "commit", <<>>)

\* tx.commit() (line 756); then sync_to_neo4j returns None (line 718) and
\* the step of run_pipeline ends (lines 1469-1472).
Commit ==
  /\ pc = "commit"
  /\ \E ok \in BOOLEAN :
       /\ issued' = Append(issued, Statement("COMMIT", <<>>, <<>>, <<>>, ok))
       /\ IF ok
            THEN /\ store' = [store EXCEPT !.nodes = tx.g.nodes, !.rels = tx.g.rels]
                 /\ synced' = Append(synced, store')
                 /\ tx' = NoTx
                 /\ reports' = Append(reports, StepExit("Synchronizing Graph", FALSE))
                 /\ pc' = "metrics"
                 /\ UNCHANGED result
            ELSE SyncFailed("COMMIT") /\ UNCHANGED <<store, synced>>
  /\ UNCHANGED <<args, ret, json_data, payload, todo, calls, clock, run, before, server, catalog>>

(***************************************************************************)
(* Metrics (lines 942-1302).                                               *)
(***************************************************************************)
Labelled(db, label) == {n \in DOMAIN db.nodes : n[1] = label}

\* SET n.<prop> = ... on the nodes of ids; props(n) gives the new values.
SetOnNodes(db, ids, props(_)) ==
  [db EXCEPT !.nodes = [n \in DOMAIN @ |-> IF n \in ids THEN props(n) @@ @[n] ELSE @[n]]]

\* lines 1026-1034
NativeDegreeQuery(db, concept_label) ==
  LET out(c)   == {r \in DOMAIN db.rels : r[1] = Lit.RELATES_TO /\ r[2] = c}
      in(c)    == {r \in DOMAIN db.rels : r[1] = Lit.RELATES_TO /\ r[3] = c}
      props(c) == (Lit.out_degree :> PyInt(Cardinality(out(c))))
                    @@ (Lit.in_degree :> PyInt(Cardinality(in(c))))
                    @@ (Lit.degree :> PyInt(Cardinality(out(c)) + Cardinality(in(c))))
  IN SetOnNodes(db, Labelled(db, concept_label), props)

\* lines 1037-1044
NativeMentionsQuery(db, concept_label) ==
  LET items(c)   == {i \in Labelled(db, Lit.Item) : <<Lit.MENTIONS, i, c>> \in DOMAIN db.rels}
      sources(c) == {src \in Labelled(db, Lit.Source) :
                       \E i \in items(c) : <<Lit.FROM_SOURCE, i, src>> \in DOMAIN db.rels}
      props(c)   == (Lit.mention_count :> PyInt(Cardinality(items(c))))
                      @@ (Lit.source_count :> PyInt(Cardinality(sources(c))))
  IN SetOnNodes(db, Labelled(db, concept_label), props)

\* lines 1072-1076, for one taxonomy field
NativeTaxonomyQuery(db, label, rel_type, concept_label) ==
  LET members(t) == {c \in Labelled(db, concept_label) :
                       <<rel_type, c, t>> \in DOMAIN db.rels}
      props(t)   == Lit.concept_count :> PyInt(Cardinality(members(t)))
  IN SetOnNodes(db, {t \in Labelled(db, label) : members(t) # {}}, props)

RECURSIVE SumStrength(_, _)
SumStrength(db, links) ==
  IF links = {} THEN 0
  ELSE LET r == CHOOSE x \in links : TRUE
       IN Get(db.rels[r], Lit.strength, PyInt(0)).v + SumStrength(db, links \ {r})

\* lines 1081-1086
NativeWeightedDegreeQuery(db) ==
  LET links(t) == {r \in DOMAIN db.rels :
                     r[1] = Lit.IS_LINKED_TO /\ (r[2] = t \/ r[3] = t)}
      props(t) == Lit.weighted_degree :> PyInt(SumStrength(db, links(t)))
  IN SetOnNodes(db, Labelled(db, Lit.Topic), props)

\* lines 1090-1095 and 1099-1104: the distinct other-taxonomy nodes of the
\* concepts grouped under a topic
NativeDiversityQuery(db, concept_label, rel_type, other_label, prop) ==
  LET grouped(t) == {c \in Labelled(db, concept_label) :
                       <<Lit.GROUPED_BY, c, t>> \in DOMAIN db.rels}
      reached(t) == {a \in Labelled(db, other_label) :
                       \E c \in grouped(t) : <<rel_type, c, a>> \in DOMAIN db.rels}
      props(t)   == prop :> PyInt(Cardinality(reached(t)))
  IN SetOnNodes(db, {t \in Labelled(db, Lit.Topic) : grouped(t) # {}}, props)

\* lines 1118-1125
NativeSourceQuery(db, concept_label) ==
  LET items(src)    == {i \in Labelled(db, Lit.Item) :
                          <<Lit.FROM_SOURCE, i, src>> \in DOMAIN db.rels}
      concepts(src) == {c \in Labelled(db, concept_label) :
                          \E i \in items(src) : <<Lit.MENTIONS, i, c>> \in DOMAIN db.rels}
      props(src)    == (Lit.item_count :> PyInt(Cardinality(items(src))))
                         @@ (Lit.concept_count :> PyInt(Cardinality(concepts(src))))
  IN SetOnNodes(db, Labelled(db, Lit.Source), props)

\* The strategy chosen by the graph fields before the chains.
GraphFieldsFirst(p) ==
  IF p.graph_fields # <<>> THEN "CO_TAXONOMY"
  ELSE IF p.chains # <<>> THEN "RELATES_TO"
  ELSE "CO_CITATION"

_get_graph_strategy(p) ==
  IF p.chains # <<>> THEN "RELATES_TO"
  ELSE IF p.graph_fields # <<>> THEN "CO_TAXONOMY"
  ELSE "CO_CITATION"

\* lines 1227-1231
TaxonomyRels(graph_fields) ==
  SelectSeq([i \in DOMAIN graph_fields |-> _get_taxonomy_relation(graph_fields[i])],
            validate_cypher_label)

\* The projection a gds.graph.project statement of _create_gds_projection
\* builds from the store: its nodes and the number of its relationships.
ProjectionQuery(db, p, strategy) ==
  LET concepts == Labelled(db, p.concept_label)
      rels     == DOMAIN db.rels
      shared(f1, f2) ==
        \E t \in DOMAIN db.nodes :
          \E r1, r2 \in Range(TaxonomyRels(p.graph_fields)) :
            <<r1, f1, t>> \in rels /\ <<r2, f2, t>> \in rels
      cocited(f1, f2) ==
        \E i1, i2 \in Labelled(db, Lit.Item) :
          /\ i1 # i2
          /\ <<Lit.MENTIONS, i1, f1>> \in rels /\ <<Lit.MENTIONS, i2, f2>> \in rels
          /\ \E src \in Labelled(db, Lit.Source) :
               <<Lit.FROM_SOURCE, i1, src>> \in rels /\ <<Lit.FROM_SOURCE, i2, src>> \in rels
      pairs ==
        {q \in concepts \X concepts :
           /\ q[1] # q[2]
           /\ IF strategy = "CO_TAXONOMY" THEN shared(q[1], q[2]) ELSE cocited(q[1], q[2])}
  IN IF strategy = "RELATES_TO"
       THEN [exists |-> TRUE, nodes |-> concepts,
             rels |-> Cardinality({r \in rels : r[1] = Lit.RELATES_TO
                                                 /\ r[2] \in concepts /\ r[3] \in concepts})]
       ELSE [exists |-> TRUE, nodes |-> {q[1] : q \in pairs},
             rels |-> Cardinality(pairs)]

\* The identifiers _create_gds_projection splices into its statement.
ProjectionIds(p, strategy) ==
  CASE strategy = "RELATES_TO" -> <<p.concept_label>>
    [] strategy = "CO_TAXONOMY" ->
         <<p.concept_label>> \o TaxonomyRels(p.graph_fields)
           \o TaxonomyRels(p.graph_fields) \o <<p.concept_label>>
    [] OTHER -> <<p.concept_label, p.concept_label>>

\* The write-back of one algorithm (lines 1274-1302).
AlgorithmQuery(db, projection, concept_label, prop) ==
  LET props(n) == prop :> [t |-> "score", v |-> 0]
  IN SetOnNodes(db, projection.nodes \cap Labelled(db, concept_label), props)

\* line 1475 and lines 981-985: compute_metrics is entered.
EnterMetrics ==
  /\ pc = "metrics"
  /\ calls' = Append(calls, [call |-> "compute_metrics", arg |-> <<>>])
  /\ pc' = "native_degree"
  /\ UNCHANGED <<args, ret, json_data, payload, store, tx, todo, issued, result, reports, clock,
                 run, before, synced, server, catalog>>

\* One session.run of the native metrics (lines 985-988): passed over when
\* skip holds; when the store rejects it the exception leaves the step
\* (line 300) and compute_metrics, and is caught by run_pipeline (line 1476).
\* done are the reporter's events when control moves on.
NativeRun(skip, kind, ids, db, next, rest, done) ==
  /\ IF skip
       THEN /\ todo' = rest
            /\ pc' = next
            /\ reports' = reports \o done
            /\ UNCHANGED <<store, issued, result>>
       ELSE \E ok \in BOOLEAN :
              /\ issued' = Append(issued, Statement(kind, ids, <<>>, <<>>, ok))
              /\ IF ok
                   THEN /\ store' = db
                        /\ todo' = rest
                        /\ pc' = next
                        /\ reports' = reports \o done
                        /\ UNCHANGED result
                   ELSE /\ reports' = Append(reports,
                                             StepExit("Calculating Native Metrics", TRUE))
                        /\ result' = ConnectionFailed(kind)
                        /\ pc' = "done"
                        /\ UNCHANGED <<store, todo>>
  /\ UNCHANGED <<args, ret, json_data, payload, tx, calls, clock, run, before, synced, server, catalog>>

ConceptLabelValid == validate_cypher_label(payload.concept_label)

\* _compute_native_concept_metrics, lines 1022-1034
NativeDegree ==
  /\ pc = "native_degree"
  /\ NativeRun(~ConceptLabelValid, "SET degree", <<payload.concept_label>>,
               NativeDegreeQuery(store, payload.concept_label),
               "native_mentions", <<>>, <<>>)

\* _compute_native_concept_metrics, lines 1037-1044, then
\* _compute_native_taxonomy_metrics is entered (lines 1061-1064)
NativeMentions ==
  /\ pc = "native_mentions"
  /\ NativeRun(~ConceptLabelValid, "SET mention_count", <<payload.concept_label>>,
               NativeMentionsQuery(store, payload.concept_label),
               IF ~ConceptLabelValid THEN "native_source"
               ELSE IF payload.graph_fields = <<>> THEN "native_weighted"
               ELSE "native_taxonomy",
               IF ConceptLabelValid THEN payload.graph_fields ELSE <<>>, <<>>)

\* _compute_native_taxonomy_metrics, lines 1064-1076: one iteration
NativeTaxonomy ==
  /\ pc = "native_taxonomy"
  /\ LET field_name == Head(todo)
         label      == sanitize_cypher_label(Capitalize(field_name))
         rel_type   == _get_taxonomy_relation(field_name)
     IN NativeRun(~validate_cypher_label(label) \/ ~validate_cypher_label(rel_type),
                  "SET concept_count", <<label, rel_type, payload.concept_label>>,
                  NativeTaxonomyQuery(store, label, rel_type, payload.concept_label),
                  IF Tail(todo) = <<>> THEN "native_weighted" ELSE "native_taxonomy",
                  Tail(todo), <<>>)

\* lines 1079-1086
NativeWeightedDegree ==
  /\ pc = "native_weighted"
  /\ NativeRun(Lit.topic \notin Range(payload.graph_fields), "SET weighted_degree", <<>>,
               NativeWeightedDegreeQuery(store), "native_aspect", <<>>, <<>>)

\* lines 1089-1095
NativeAspectDiversity ==
  /\ pc = "native_aspect"
  /\ NativeRun(~(Lit.topic \in Range(payload.graph_fields)
                   /\ Lit.aspect \in Range(payload.graph_fields)),
               "SET aspect_diversity", <<payload.concept_label>>,
               NativeDiversityQuery(store, payload.concept_label, Lit.QUALIFIED_BY,
                                    Lit.Aspect, Lit.aspect_diversity),
               "native_dimension", <<>>, <<>>)

\* lines 1098-1104
NativeDimensionDiversity ==
  /\ pc = "native_dimension"
  /\ NativeRun(~(Lit.topic \in Range(payload.graph_fields)
                   /\ Lit.dimension \in Range(payload.graph_fields)),
               "SET dimension_diversity", <<payload.concept_label>>,
               NativeDiversityQuery(store, payload.concept_label, Lit.BELONGS_TO,
                                    Lit.Dimension, Lit.dimension_diversity),
               "native_source", <<>>, <<>>)

\* _compute_native_source_metrics (lines 1107-1125); the step then ends.
NativeSource ==
  /\ pc = "native_source"
  /\ NativeRun(~ConceptLabelValid, "SET item_count", <<payload.concept_label>>,
               NativeSourceQuery(store, payload.concept_label),
               "probe", <<>>, <<StepExit("Calculating Native Metrics", FALSE)>>)

\* A probe whose failure does not end compute_metrics.
ProbeGdsContinues ==
  /\ pc = "probe"
  /\ \E ok \in BOOLEAN :
       /\ issued' = Append(issued, Statement("RETURN gds.version()", <<>>, <<>>, <<>>, ok))
       /\ reports' = Append(reports,
                            IF ok THEN Event("info", _get_graph_strategy(payload))
                            ELSE Event("warning", "GDS not installed"))
       /\ pc' = "gds_drop_before"
  /\ UNCHANGED <<args, ret, json_data, payload, store, tx, todo, calls, result, clock, run,
                 before, synced, server, catalog>>

\* _is_gds_available (lines 942-950) and lines 991-999
ProbeGds ==
  /\ pc = "probe"
  /\ \E ok \in BOOLEAN :
       /\ issued' = Append(issued, Statement("RETURN gds.version()", <<>>, <<>>, <<>>, ok))
       /\ IF ok
            THEN /\ reports' = Append(reports, Event("info", _get_graph_strategy(payload)))
                 /\ pc' = "gds_drop_before"
            ELSE /\ reports' = Append(reports, Event("warning", "GDS not installed"))
                 /\ pc' = "finish"
  /\ UNCHANGED <<args, ret, json_data, payload, store, tx, todo, calls, result, clock, run,
                 before, synced, server, catalog>>

\* _drop_gds_graph (lines 1186-1192): a failure is swallowed.
DropProjection(next, done) ==
  /\ \E ok \in BOOLEAN :
       /\ issued' = Append(issued, Statement("gds.graph.drop", <<>>, <<>>,
                                             Lit.synesis_metrics_graph, ok))
       /\ catalog' = IF ok THEN NoProjection ELSE catalog
  /\ pc' = next
  /\ reports' = reports \o done
  /\ UNCHANGED <<args, ret, json_data, payload, store, tx, todo, calls, result, clock, run,
                 before, synced, server>>

\* _compute_gds_metrics, line 1149
GdsDropBefore ==
  /\ pc = "gds_drop_before"
  /\ DropProjection("gds_project", <<>>)

\* The empty projection reported twice.
EmptyProjectionWarnsTwice ==
  <<Event("warning", "Empty graph - skipping GDS metrics"),
    Event("warning", "Empty graph - skipping GDS metrics"),
    StepExit("Calculating GDS Metrics", FALSE)>>

\* lines 1156-1158, then the step and compute_metrics end
EmptyProjection ==
  <<Event("warning", "Empty graph - skipping GDS metrics"),
    StepExit("Calculating GDS Metrics", FALSE)>>

\* _create_gds_projection (lines 1195-1269) and lines 1152-1160; an
\* exception is caught by compute_metrics (lines 1004-1005).  The plugin
\* rejects the statement when a projection of that name exists.
GdsProject ==
  /\ pc = "gds_project"
  /\ LET strategy == _get_graph_strategy(payload)
     IN IF strategy = "CO_TAXONOMY" /\ TaxonomyRels(payload.graph_fields) = <<>>
          THEN /\ reports' = reports \o EmptyProjection
               /\ pc' = "finish"
               /\ UNCHANGED <<issued, catalog>>
          ELSE \E ok \in {b \in BOOLEAN : b => ~catalog.exists} :
                 /\ issued' = Append(issued, Statement("gds.graph.project",
                                                       ProjectionIds(payload, strategy),
                                                       <<>>, Lit.synesis_metrics_graph, ok))
                 /\ IF ok
                      THEN LET projection == ProjectionQuery(store, payload, strategy)
                           IN /\ catalog' = projection
                              /\ IF projection.nodes = {} \/ projection.rels = 0
                                   THEN /\ reports' = reports \o EmptyProjection
                                        /\ pc' = "finish"
                                   ELSE /\ reports' = Append(reports,
                                                             Event("info", "GDS projection"))
                                        /\ pc' = "pagerank"
                      ELSE /\ reports' = reports \o
                                <<Event("warning", "Error calculating GDS metrics"),
                                  StepExit("Calculating GDS Metrics", FALSE)>>
                           /\ pc' = "finish"
                           /\ UNCHANGED catalog
  /\ UNCHANGED <<args, ret, json_data, payload, store, tx, todo, calls, result, clock, run,
                 before, synced, server>>

\* One algorithm of lines 1163-1180: its failure is reported as a warning.
RunAlgorithm(kind, prop, name, next) ==
  /\ \E ok \in BOOLEAN :
       /\ issued' = Append(issued, Statement(kind, <<payload.concept_label>>, <<>>,
                                             Lit.synesis_metrics_graph, ok))
       /\ IF ok
            THEN /\ store' = AlgorithmQuery(store, catalog, payload.concept_label, prop)
                 /\ reports' = Append(reports, Event("success", name))
            ELSE /\ reports' = Append(reports, Event("warning", name))
                 /\ UNCHANGED store
  /\ pc' = next
  /\ UNCHANGED <<args, ret, json_data, payload, tx, todo, calls, result, clock, run, before,
                 synced, server, catalog>>

\* lines 1163-1167 and _run_pagerank
RunPagerank ==
  /\ pc = "pagerank"
  /\ RunAlgorithm("gds.pageRank.stream", Lit.pagerank, "PageRank", "betweenness")

\* Betweenness that leaves the algorithms.
RunBetweennessThenDrop ==
  /\ pc = "betweenness"
  /\ RunAlgorithm("gds.betweenness.stream", Lit.betweenness, "Betweenness",
                  "gds_drop_after")

\* lines 1169-1174 and _run_betweenness
RunBetweenness ==
  /\ pc = "betweenness"
  /\ RunAlgorithm("gds.betweenness.stream", Lit.betweenness, "Betweenness", "louvain")

\* lines 1176-1180 and _run_louvain
RunLouvain ==
  /\ pc = "louvain"
  /\ RunAlgorithm("gds.louvain.stream", Lit.community, "Louvain", "gds_drop_after")

\* _compute_gds_metrics, line 1183, then the step and compute_metrics end
GdsDropAfter ==
  /\ pc = "gds_drop_after"
  /\ DropProjection("finish", <<StepExit("Calculating GDS Metrics", FALSE)>>)

\* lines 1486-1494
Finish ==
  /\ pc = "finish"
  /\ result' = Success
  /\ pc' = "done"
  /\ UNCHANGED <<args, ret, json_data, payload, store, tx, todo, issued, calls, reports, clock,
                 run, before, synced, server, catalog>>

\* The program is run again on the same project, at once or a second later.
Rerun ==
  /\ pc = "done"
  /\ run < MaxRuns
  /\ run' = run + 1
  /\ pc' = "start"
  /\ payload' = NoPayload
  /\ todo' = <<>>
  /\ issued' = <<>>
  /\ calls' = <<>>
  /\ result' = NoResult
  /\ reports' = <<>>
  /\ before' = <<>>
  /\ \E elapsed \in 0..1 : clock' = clock + elapsed
  /\ UNCHANGED <<args, ret, json_data, store, tx, synced, server, catalog>>

Next ==
  \/ Validate \/ Compile \/ LoadConfig \/ Connect
  \/ EnsureShow \/ EnsureCreate \/ OpenSession
  \/ ShowConstraints \/ DropConstraint \/ ShowIndexes \/ DropIndex \/ DeleteAll
  \/ TaxonomyConstraint \/ SourceConstraint \/ ItemConstraint \/ ConceptConstraint
  \/ BeginTransaction \/ SyncSources \/ SyncItems \/ SyncFromSource
  \/ SyncConceptNodes \/ SyncChainStubs \/ SyncRelatesTo \/ SyncTaxonomy
  \/ SyncTopicAspect \/ SyncTopicDimension \/ SyncIsLinkedTo \/ SyncMentions \/ Commit
  \/ EnterMetrics \/ NativeDegree \/ NativeMentions \/ NativeTaxonomy
  \/ NativeWeightedDegree \/ NativeAspectDiversity \/ NativeDimensionDiversity
  \/ NativeSource \/ ProbeGds \/ GdsDropBefore \/ GdsProject
  \/ RunPagerank \/ RunBetweenness \/ RunLouvain \/ GdsDropAfter
  \/ Finish \/ Rerun

Spec == Init /\ [][Next]_vars

(***************************************************************************)
(* Properties.                                                             *)
(***************************************************************************)
Called(c) == \E i \in DOMAIN calls : calls[i].call = c

ClearKinds ==
  {"SHOW CONSTRAINTS", "DROP CONSTRAINT", "SHOW INDEXES", "DROP INDEX", "DETACH DELETE"}

\* The statements of _execute_sync_transaction, in the order of its text.
TxOrder ==
  <<"MERGE Source", "MERGE Item", "MERGE FROM_SOURCE", "MERGE concept",
    "MERGE chain concepts", "MERGE RELATES_TO", "MERGE taxonomy",
    "MERGE MAPPED_TO_ASPECT", "MERGE MAPPED_TO_DIMENSION", "MERGE IS_LINKED_TO",
    "MERGE MENTIONS", "COMMIT">>

SyncKinds == ClearKinds \cup {"CREATE CONSTRAINT", "BEGIN"} \cup Range(TxOrder)

MetricsKinds ==
  {"SET degree", "SET mention_count", "SET concept_count", "SET weighted_degree",
   "SET aspect_diversity", "SET dimension_diversity", "SET item_count",
   "RETURN gds.version()", "gds.graph.drop", "gds.graph.project",
   "gds.pageRank.stream", "gds.betweenness.stream", "gds.louvain.stream"}

Sent(kind) == {i \in DOMAIN issued : issued[i].kind = kind}

Accepted(kind) == {i \in Sent(kind) : issued[i].ok}

\* The statement sent last. Every statement of a run is the latest one in
\* the state that follows its sending, so what holds of the latest statement
\* in every state holds of every statement.
Latest == issued[Len(issued)]

SyncErrorReturned == result.done /\ result.type = "SyncError" /\ result.stage = "sync"

\* C1: when a statement of sync_to_neo4j has failed, the store holds the
\* state it had when sync_to_neo4j was called, or the state of a committed
\* transaction - never a cleared or half-loaded graph.
C1_NoPartialState ==
  SyncErrorReturned => (store = before[1] \/ Accepted("COMMIT") # {})

\* C2: every label or relationship type spliced into a statement that was
\* sent to the store matches ^[A-Za-z_][A-Za-z0-9_]*$.
C2_SplicedIdentifiersValid ==
  \A i \in DOMAIN issued :
    \A k \in DOMAIN issued[i].ids : validate_cypher_label(issued[i].ids[k])

Timestamps == {Lit.created, Lit.last_updated}

Unstamped(props) ==
  [k \in DOMAIN props |-> IF k \in Timestamps THEN PyNone ELSE props[k]]

WithoutTimestamps(db) ==
  [db EXCEPT !.nodes = [n \in DOMAIN @ |-> Unstamped(@[n])],
             !.rels  = [r \in DOMAIN @ |-> Unstamped(@[r])]]

\* C3 as stated: when sync_to_neo4j has returned None (pc = "metrics"), it
\* has left the store in the state the first sync of the unchanged snapshot
\* left: the same constraints, indexes, nodes, relationships and property
\* values.
C3_SameState ==
  pc = "metrics" => \A i \in DOMAIN synced : synced[i] = synced[1]

\* C3: when sync_to_neo4j has returned None (pc = "metrics"), it has left
\* the same constraints, indexes, nodes, relationships and properties as the
\* first sync of the unchanged snapshot, and the same property values
\* except those of created and last_updated.
C3_SameStateButTimestamps ==
  pc = "metrics" =>
    \A i \in DOMAIN synced : WithoutTimestamps(synced[i]) = WithoutTimestamps(synced[1])

\* Two syncs a second apart have left stores that differ.
C3_Witness ==
  /\ Len(synced) >= 2
  /\ synced[1] # synced[2]
  /\ DOMAIN synced[2].nodes # {}

TaxonomyLabel(field_name) == sanitize_cypher_label(Capitalize(field_name))

DeclaredFor(label) ==
  \E i \in Sent("CREATE CONSTRAINT") : issued[i].ids = <<label>>

LinkedFor(field_name) ==
  \E i \in Sent("MERGE taxonomy") : issued[i].keys = <<field_name, field_name>>

Fields == IF payload = NoPayload THEN {} ELSE Range(payload.graph_fields)

\* The taxonomy loop of _create_constraints has ended.
ConstraintLoopDone == pc = "item_constraint"

\* The taxonomy loop of _sync_taxonomies has ended.
TaxonomyLoopDone ==
  pc = "topic_dimension" /\ payload.concepts # <<>>

C5_MetricsNonFatal ==
  (result.done /\ Called("compute_metrics")) => result.success

\* C6: when _compute_gds_metrics has returned, a drop of the projection was
\* attempted before every creation, and after every creation that the
\* plugin accepted.
C6_ProjectionDropped ==
  pc \in {"finish", "done"} =>
    \A i \in Sent("gds.graph.project") :
      /\ \E j \in Sent("gds.graph.drop") : j < i
      /\ issued[i].ok => \E j \in Sent("gds.graph.drop") : j > i

\* C7: after a compilation failure no configuration is loaded, and after a
\* compilation or configuration failure run_pipeline has returned, no
\* driver is opened and no statement is sent.
C7_ShortCircuit ==
  /\ (result.done /\ result.type = "CompilationError") =>
       /\ pc = "done"
       /\ ~Called("load_config")
       /\ ~Called("GraphDatabase.driver")
       /\ issued = <<>>
  /\ (result.done /\ result.stage = "config") =>
       /\ pc = "done"
       /\ ~Called("GraphDatabase.driver")
       /\ ~Called("sync_to_neo4j")
       /\ ~Called("compute_metrics")
       /\ issued = <<>>

\* The configuration could not be loaded after a successful compilation.
C7_Witness ==
  /\ result.done
  /\ result.stage = "config"
  /\ payload # NoPayload

\* C8: a statement of sync_to_neo4j that fails is the last statement of the
\* run; run_pipeline returns one SyncError whose details is the cause, the
\* transaction is closed, and compute_metrics is not called.
C8_OneSyncError ==
  /\ \A i \in DOMAIN issued :
       (issued[i].kind \in SyncKinds /\ ~issued[i].ok) =>
         /\ i = Len(issued)
         /\ result = Failure("SyncError", "sync", issued[i].kind)
         /\ pc = "done"
         /\ ~tx.open
         /\ ~Called("compute_metrics")
  /\ SyncErrorReturned =>
       /\ issued # <<>>
       /\ ~issued[Len(issued)].ok
       /\ issued[Len(issued)].kind \in SyncKinds

\* A statement inside the transaction has failed.
C8_Witness ==
  /\ SyncErrorReturned
  /\ issued[Len(issued)].tx
  /\ result.details = "MERGE Item"

Position(kind) == CHOOSE k \in DOMAIN TxOrder : TxOrder[k] = kind

\* In the text of _execute_sync_transaction cur comes after prev, or both
\* are iterations of the taxonomy loop.
Follows(prev, cur) ==
  \/ Position(prev) < Position(cur)
  \/ prev = "MERGE taxonomy" /\ cur = "MERGE taxonomy"

\* The steps of _execute_sync_transaction that have something to send.
Due ==
  {k \in Range(TxOrder) :
     CASE k = "MERGE Source" -> payload.sources # <<>>
       [] k = "MERGE Item" -> payload.items # <<>>
       [] k = "MERGE FROM_SOURCE" -> payload.from_source # <<>>
       [] k = "MERGE concept" -> payload.concepts # <<>>
       [] k \in {"MERGE chain concepts", "MERGE RELATES_TO"} -> payload.chains # <<>>
       [] k = "MERGE MENTIONS" -> payload.mentions # <<>>
       [] OTHER -> FALSE}

\* C9: the writes of a run are sent inside one transaction, each right after
\* the one before it was accepted, in the order Sources, Items, FROM_SOURCE,
\* concepts, RELATES_TO, taxonomies, mappings, IS_LINKED_TO, MENTIONS; the
\* commit comes last, after every step that had something to send.
C9_FixedOrder ==
  /\ Cardinality(Sent("BEGIN")) <= 1
  /\ issued # <<>> =>
       /\ Latest.tx <=> Latest.kind \in Range(TxOrder)
       /\ Latest.kind \in Range(TxOrder) =>
            /\ Len(issued) > 1
            /\ issued[Len(issued) - 1].ok
            /\ \/ issued[Len(issued) - 1].kind = "BEGIN"
               \/ /\ issued[Len(issued) - 1].kind \in Range(TxOrder)
                  /\ Follows(issued[Len(issued) - 1].kind, Latest.kind)
  /\ Sent("COMMIT") # {} => \A k \in Due : Accepted(k) # {}

\* A transaction with chains, taxonomies and mentions has been committed.
C9_Witness ==
  /\ Accepted("COMMIT") # {}
  /\ Accepted("MERGE RELATES_TO") # {}
  /\ Accepted("MERGE IS_LINKED_TO") # {}
  /\ Accepted("MERGE MENTIONS") # {}

Last(kind) == issued # <<>> /\ Latest.kind = kind /\ Latest.ok

MetricProps ==
  {Lit.out_degree, Lit.in_degree, Lit.degree, Lit.mention_count, Lit.source_count,
   Lit.concept_count, Lit.weighted_degree, Lit.aspect_diversity,
   Lit.dimension_diversity, Lit.item_count, Lit.pagerank, Lit.betweenness,
   Lit.community}

\* The labels that the statements of a sync can give a node.
PayloadLabels ==
  {Lit.Source, Lit.Item, payload.concept_label} \cup {TaxonomyLabel(f) : f \in Fields}

\* C10: a constraint is declared and a write is sent only after the
\* constraints and indexes were listed and everything was deleted; when the
\* delete has run the store has no constraint, index, node or relationship;
\* and after the commit no node, relationship, constraint, index or computed
\* property of an earlier state is left.
C10_ClearFirst ==
  /\ (issued # <<>>
        /\ Latest.kind \in ({"CREATE CONSTRAINT", "BEGIN"} \cup Range(TxOrder))) =>
       /\ Accepted("SHOW CONSTRAINTS") # {}
       /\ Accepted("SHOW INDEXES") # {}
       /\ Accepted("DETACH DELETE") # {}
  /\ Last("DETACH DELETE") => store = EmptyStore
  /\ Last("COMMIT") =>
       /\ \A n \in DOMAIN store.nodes :
            /\ n[1] \in PayloadLabels
            /\ DOMAIN store.nodes[n] \cap MetricProps = {}
       /\ \A r \in DOMAIN store.rels : {r[2], r[3]} \subseteq DOMAIN store.nodes
       /\ \A c \in store.constraints : c.label \in PayloadLabels
       /\ \A x \in store.indexes : x.owner # <<>>

\* Everything has been deleted from a database that held another project's
\* constraint, indexes, nodes and relationship.
C10_Witness ==
  /\ Last("DETACH DELETE")
  /\ before[1].constraints # {}
  /\ \E x \in before[1].indexes : x.owner = <<>>
  /\ DOMAIN before[1].rels # {}

\* The end of the step "Calculating Native Metrics" in the reporter's log.
NativeStepEnded ==
  {i \in DOMAIN reports : reports[i] = StepExit("Calculating Native Metrics", FALSE)}

\* The reporter's events of a level that follow the native step: those of
\* the probe and of _compute_gds_metrics.
GdsEvents(level) ==
  {i \in DOMAIN reports : reports[i].level = level /\ \E j \in NativeStepEnded : j < i}

AlgorithmKinds == {"gds.pageRank.stream", "gds.betweenness.stream", "gds.louvain.stream"}

AlgorithmProps == {Lit.pagerank, Lit.betweenness, Lit.community}

MetricsReturned == pc \in {"finish", "done"}

\* _create_gds_projection has returned a zero count: the plugin registered a
\* projection without nodes or without relationships, or no statement was
\* sent because no taxonomy relation is valid (line 1234).
EmptyProjectionReturned ==
  /\ MetricsReturned
  /\ \/ /\ Accepted("gds.graph.project") # {}
        /\ catalog.exists
        /\ catalog.nodes = {} \/ catalog.rels = 0
     \/ /\ Sent("gds.graph.drop") # {}
        /\ Sent("gds.graph.project") = {}

\* C11: when the projection has zero nodes or zero relationships, no
\* algorithm statement is sent, one warning is reported and no node carries
\* a pagerank, betweenness or community property.
C11_EmptyProjectionSkips ==
  EmptyProjectionReturned =>
    /\ \A k \in AlgorithmKinds : Sent(k) = {}
    /\ Cardinality(GdsEvents("warning")) = 1
    /\ GdsEvents("error") = {}
    /\ \A n \in DOMAIN store.nodes : DOMAIN store.nodes[n] \cap AlgorithmProps = {}

\* The plugin projected a loaded graph and found no relationship in it, and
\* run_pipeline has returned.
C11_Witness ==
  /\ EmptyProjectionReturned
  /\ pc = "done"
  /\ Accepted("gds.graph.project") # {}
  /\ DOMAIN store.nodes # {}

\* The info event of line 1160: the projection has nodes and relationships.
ProjectionReported ==
  \E i \in DOMAIN reports : reports[i] = Event("info", "GDS projection")

Failed(kind) == Sent(kind) \ Accepted(kind)

Warned(name) == {i \in GdsEvents("warning") : reports[i].text = name}

\* C12: with a non-empty projection each of the three algorithms is run
\* once, in order, whichever of them fail; each failure is one warning; the
\* step ends without an exception and run_pipeline returns success.
C12_AlgorithmsIndependent ==
  (MetricsReturned /\ ProjectionReported) =>
    /\ \A k \in AlgorithmKinds : Cardinality(Sent(k)) = 1
    /\ \E i \in Sent("gds.pageRank.stream") :
         /\ issued[i + 1].kind = "gds.betweenness.stream"
         /\ issued[i + 2].kind = "gds.louvain.stream"
         /\ issued[i + 3].kind = "gds.graph.drop"
    /\ Cardinality(Warned("PageRank")) = Cardinality(Failed("gds.pageRank.stream"))
    /\ Cardinality(Warned("Betweenness")) = Cardinality(Failed("gds.betweenness.stream"))
    /\ Cardinality(Warned("Louvain")) = Cardinality(Failed("gds.louvain.stream"))
    /\ GdsEvents("warning") = Warned("PageRank") \cup Warned("Betweenness") \cup Warned("Louvain")
    /\ GdsEvents("error") = {}
    /\ reports[Len(reports)] = StepExit("Calculating GDS Metrics", FALSE)
    /\ pc = "done" => result.success

\* PageRank and Louvain have failed, betweenness has not, and run_pipeline
\* has returned.
C12_Witness ==
  /\ pc = "done"
  /\ ProjectionReported
  /\ Failed("gds.pageRank.stream") # {}
  /\ Accepted("gds.betweenness.stream") # {}
  /\ Failed("gds.louvain.stream") # {}

ProbeFailed == Failed("RETURN gds.version()") # {}

\* The native statements that the guards of the three native functions let
\* through for the payload (lines 1022, 1061, 1068, 1079, 1089, 1098, 1117).
NativeDue ==
  IF ~ConceptLabelValid THEN {}
  ELSE {"SET degree", "SET mention_count", "SET item_count"}
       \cup (IF \E f \in Fields : /\ validate_cypher_label(TaxonomyLabel(f))
                                  /\ validate_cypher_label(_get_taxonomy_relation(f))
               THEN {"SET concept_count"} ELSE {})
       \cup (IF Lit.topic \in Fields THEN {"SET weighted_degree"} ELSE {})
       \cup (IF {Lit.topic, Lit.aspect} \subseteq Fields
               THEN {"SET aspect_diversity"} ELSE {})
       \cup (IF {Lit.topic, Lit.dimension} \subseteq Fields
               THEN {"SET dimension_diversity"} ELSE {})

\* C13: when the probe has failed, the native step has ended with each of
\* its statements accepted, one warning and no error is reported, no
\* projection or algorithm statement is sent, and run_pipeline returns
\* success.
C13_ProbeFailureIsWarning ==
  ProbeFailed =>
    /\ MetricsReturned
    /\ NativeStepEnded # {}
    /\ \A k \in NativeDue : Accepted(k) # {}
    /\ Latest.kind = "RETURN gds.version()"
    /\ Cardinality(GdsEvents("warning")) = 1
    /\ \A i \in DOMAIN reports : reports[i].level # "error"
    /\ \A k \in AlgorithmKinds \cup {"gds.graph.project", "gds.graph.drop"} : Sent(k) = {}
    /\ pc = "done" => result.success

\* The probe has failed after the taxonomy counts were written, and
\* run_pipeline has returned.
C13_Witness ==
  /\ ProbeFailed
  /\ pc = "done"
  /\ Accepted("SET concept_count") # {}

(***************************************************************************)
(* The pure functions of the program, each called on its own on every      *)
(* argument of a bounded set.                                              *)
(***************************************************************************)
MaxLen == 3

\* The characters of the arguments: letters of both cases, a digit, the
\* characters the sanitizers treat apart, and a non-ASCII letter.
Chars == {"a", "Z", "7", "_", "-", ".", ";", " ", "eacute"}

\* The strings of n characters.
Strings(n) == [1..n -> Chars]

\* Payloads with up to MaxLen chains and up to MaxLen taxonomy fields.
StrategyPayloads ==
  LET chains == [i \in 1..MaxLen |->
                   [source |-> <<"A">>, target |-> <<"B">>, type |-> <<"R">>,
                    description |-> <<>>, item_id |-> ItemId(<<"i">>, Lit.sfx_n, i)]]
      fields == [i \in 1..MaxLen |-> <<"f">> \o IntToStr(i)]
  IN {[chains |-> SubSeq(chains, 1, n), graph_fields |-> SubSeq(fields, 1, m)] :
        n \in 0..MaxLen, m \in 0..MaxLen}

MaxFields == 2

\* The scope and type of a field: the three scopes, one in lower case and a
\* missing one; the five types the analysis knows and the default.
FieldScopes == {Lit.ONTOLOGY, Lit.ITEM, Lit.SOURCE, Lower(Lit.ITEM), <<>>}

FieldTypes == {Lit.TOPIC, Lit.ENUMERATED, Lit.ORDERED, Lit.CHAIN, Lit.CODE, Lit.TEXT}

\* The field at position i of a template: its name is its own (the names
\* are the keys of a dict); all but a TOPIC and a CHAIN field list values.
TemplateField(i, scope, type) ==
  [FieldSpec(<<"f">> \o IntToStr(i), scope, type) EXCEPT
     !.values = IF type \in {Lit.TOPIC, Lit.CHAIN} THEN <<>>
                ELSE <<[index |-> 1, label |-> <<"h","i">>]>>]

\* The templates of n fields.
Templates(n) ==
  {[i \in 1..n |-> TemplateField(i, kinds[i][1], kinds[i][2])] :
     kinds \in [1..n -> FieldScopes \X FieldTypes]}

MaxRecords == 2

\* The k-th entry of a chain value: three nodes with blanks around them and
\* a relation with a hyphen and a blank, or four nodes.
ChainEntry(k) ==
  IF k % 2 = 1
    THEN [nodes |-> <<<<" ","A">>, <<" ","r","e","-","l"," ","x"," ">>, <<"B"," ">>>>]
    ELSE [nodes |-> <<<<"B">>, <<"u","s","e","s">>, <<"C">>, <<"D">>>>]

\* The data of a record with n note/chain pairs.
ChainData(n) ==
  (Lit.chain :> PyList([k \in 1..n |-> ChainEntry(k)]))
    @@ (Lit.note :> PyList([k \in 1..n |-> PyStr(<<"n">> \o IntToStr(k))]))
    @@ (Lit.text :> PyStr(<<"c">>))

CodeFieldNames == <<Lit.code, Lit.code \o <<"2">>>>

\* The data of a record: none; an empty chain, alone or with codes; up to
\* MaxLen pairs; a pair with codes; more chain entries than notes; a chain
\* entry of two nodes; one code; codes with a description; no code; a code in
\* the second code field after an empty first one; codes in both code fields.
RecordData ==
  {EmptyDict,
   Lit.chain :> PyList(<<>>),
   (Lit.chain :> PyList(<<>>)) @@ (Lit.code :> PyList(<<PyStr(<<"K">>)>>)),
   ChainData(1) @@ (Lit.code :> PyList(<<PyStr(<<"K">>)>>)),
   (Lit.chain :> PyList(<<ChainEntry(1), ChainEntry(2)>>))
     @@ (Lit.note :> PyList(<<PyStr(<<"n">>)>>)),
   (Lit.chain :> PyList(<<[nodes |-> <<<<"A">>, <<"r">>>>]>>))
     @@ (Lit.note :> PyList(<<PyStr(<<"n">>)>>)),
   Lit.code :> PyStr(<<"K">>),
   (Lit.code :> PyList(<<PyStr(<<"K">>), PyStr(<<"L">>)>>))
     @@ (Lit.descricao :> PyList(<<PyStr(<<"d">>)>>)),
   Lit.code :> PyList(<<>>),
   (Lit.code :> PyList(<<>>)) @@ (CodeFieldNames[2] :> PyList(<<PyStr(<<"L">>)>>)),
   (Lit.code :> PyList(<<PyStr(<<"K">>)>>))
     @@ (CodeFieldNames[2] :> PyList(<<PyStr(<<"L">>)>>))}
    \cup {ChainData(n) : n \in 1..MaxLen}

\* The source_metadata of the i-th record: a record that cites with "@"
\* carries a title of its own, a declared source field and a null year;
\* any other record carries none.
SourceMetadata(i, source_ref) ==
  IF source_ref[1] = "@"
    THEN (Lit.title :> PyStr(<<"m">> \o IntToStr(i)))
           @@ (Lit.method :> PyStr(<<"q">>)) @@ (Lit.year :> PyNone)
    ELSE EmptyDict

\* The corpora of n records, each citing X (with or without its "@") or Y,
\* with the other arguments of _extract_corpus_data.
Corpora(n) ==
  LET refs == {<<"@","X">>, <<"X">>, <<"Y">>}
      corpora ==
        {[i \in 1..n |->
            [CorpusItem(<<"i">> \o IntToStr(i), rs[i][1], rs[i][2]) EXCEPT
               !.source_metadata = SourceMetadata(i, rs[i][1])]] :
           rs \in [1..n -> refs \X RecordData]}
  IN {[corpus |-> c,
       bibliography |-> (<<"X">> :> ((Lit.title :> PyStr(<<"t">>))
                                       @@ (Lit.year :> PyInt(2020)))),
       relation_definitions |-> (<<"r","e","-","l"," ","x">> :> <<"d">>),
       code_field_names |-> CodeFieldNames,
       source_fields |-> <<Lit.method>>] : c \in corpora}

\* The raw values of a taxonomy field on an ontology entry: an index the
\* value map has, one it has not, a name, and lists of them.
RawValues ==
  {PyInt(1), PyInt(2), PyStr(<<"s">>), PyList(<<>>),
   PyList(<<PyInt(1), PyInt(2)>>), PyList(<<PyStr(<<"s">>), PyInt(2)>>)}

\* The arguments of _extract_concepts for one ontology entry and n graph
\* fields, each with or without a value map and present on the entry or not.
ConceptInputs(n) ==
  LET name(i) == <<"f">> \o IntToStr(i)
      index(nm) == CHOOSE i \in 1..n : name(i) = nm
  IN {[ontology |->
         <<ConceptEntry(<<"A">>,
                        [nm \in {name(i) : i \in {j \in 1..n : ks[j][2]}} |->
                           ks[index(nm)][3]])>>,
       scalar_fields |-> <<>>,
       graph_fields  |-> [i \in 1..n |-> name(i)],
       value_maps    |-> [nm \in {name(i) : i \in {j \in 1..n : ks[j][1]}} |->
                            <<[index |-> 1, label |-> <<"h","i">>]>>]] :
        ks \in [1..n -> BOOLEAN \X BOOLEAN \X RawValues]}

\* The snapshots of n item fields, each a chain field, a code field or a
\* text field, its name in mixed case with a hyphen, with a leading digit
\* or with no letter, followed by its position; and their analysis.
LabelInputs(n) ==
  LET bases == {<<"r","E","-">>, <<"7","c">>, <<"-">>}
      types == {Lit.CHAIN, Lit.CODE, Lit.TEXT}
      template(ks) == [i \in 1..n |-> FieldSpec(ks[i][1] \o IntToStr(i), Lit.ITEM, ks[i][2])]
  IN {[json_data |-> [EmptySnapshot EXCEPT !.template = template(ks)],
       analysis  |-> analyze_template(template(ks))] :
        ks \in [1..n -> bases \X types]}

Call(fn, inputs) == {[fn |-> fn, in |-> x] : x \in inputs}

\* One function is called, on one argument of its bounded set.
FunctionCalled ==
  \/ \E n \in 0..MaxLen : args \in Call("sanitize_cypher_label", Strings(n))
  \/ \E n \in 0..MaxLen : args \in Call("sanitize_database_name", Strings(n))
  \/ args \in Call("_get_graph_strategy", StrategyPayloads)
  \/ \E n \in 0..MaxFields : args \in Call("analyze_template", Templates(n))
  \/ \E n \in 0..MaxRecords : args \in Call("_extract_corpus_data", Corpora(n))
  \/ \E n \in 0..MaxFields : args \in Call("_extract_concepts", ConceptInputs(n))
  \/ \E n \in 0..MaxFields : args \in Call("_build_graph_payload", LabelInputs(n))

\* No pipeline is running.
FunctionInit ==
  /\ json_data = EmptySnapshot
  /\ store = EmptyStore
  /\ server = [multi |-> FALSE, exists |-> FALSE]
  /\ pc = "call"
  /\ payload = NoPayload
  /\ tx = NoTx
  /\ todo = <<>>
  /\ issued = <<>>
  /\ calls = <<>>
  /\ result = NoResult
  /\ reports = <<>>
  /\ clock = 0
  /\ run = 1
  /\ before = <<>>
  /\ synced = <<>>
  /\ catalog = NoProjection
  /\ FunctionCalled
  /\ ret = NoReturn

Return(out) ==
  /\ ~ret.done
  /\ ret' = [done |-> TRUE, out |-> out]
  /\ pc' = "return"
  /\ UNCHANGED <<args, json_data, payload, store, tx, todo, issued, calls, result,
                 reports, clock, run, before, synced, server, catalog>>

CallSanitizeCypherLabel ==
  /\ args.fn = "sanitize_cypher_label"
  /\ Return(sanitize_cypher_label(args.in))

CallSanitizeDatabaseName ==
  /\ args.fn = "sanitize_database_name"
  /\ Return(sanitize_database_name(args.in))

CallGetGraphStrategy ==
  /\ args.fn = "_get_graph_strategy"
  /\ Return(_get_graph_strategy(args.in))

CallAnalyzeTemplate ==
  /\ args.fn = "analyze_template"
  /\ Return(analyze_template(args.in))

CallExtractCorpusData ==
  /\ args.fn = "_extract_corpus_data"
  /\ Return(_extract_corpus_data(args.in.corpus, args.in.bibliography,
                                  args.in.relation_definitions,
                                  args.in.code_field_names, args.in.source_fields))

\* The concepts are stamped with the time of the call.
CallExtractConcepts ==
  /\ args.fn = "_extract_concepts"
  /\ Return(_extract_concepts(args.in.ontology, args.in.scalar_fields,
                               args.in.graph_fields, args.in.value_maps, clock))

CallBuildGraphPayload ==
  /\ args.fn = "_build_graph_payload"
  /\ Return(_build_graph_payload(args.in.json_data, args.in.analysis, clock))

FunctionNext ==
  \/ CallSanitizeCypherLabel \/ CallSanitizeDatabaseName \/ CallGetGraphStrategy
  \/ CallAnalyzeTemplate \/ CallExtractCorpusData \/ CallExtractConcepts
  \/ CallBuildGraphPayload

FunctionSpec == FunctionInit /\ [][FunctionNext]_vars

Returned(fn) == ret.done /\ args.fn = fn

\* C14: _get_graph_strategy returns RELATES_TO when the payload has chains,
\* whatever its graph fields; CO_TAXONOMY when it has no chain and has graph
\* fields; CO_CITATION when it has neither.
C14_StrategyByPayload ==
  Returned("_get_graph_strategy") =>
    /\ args.in.chains # <<>> => ret.out = "RELATES_TO"
    /\ (args.in.chains = <<>> /\ args.in.graph_fields # <<>>) => ret.out = "CO_TAXONOMY"
    /\ (args.in.chains = <<>> /\ args.in.graph_fields = <<>>) => ret.out = "CO_CITATION"

\* The strategy of a payload with chains and with graph fields.
C14_Witness ==
  /\ Returned("_get_graph_strategy")
  /\ args.in.chains # <<>>
  /\ args.in.graph_fields # <<>>

\* The whole of s matches [a-z][a-z0-9.-]*
IsStoreName(s) ==
  /\ s # <<>>
  /\ s[1] \in Range(AsciiLower)
  /\ \A i \in DOMAIN s : s[i] \in Range(AsciiLower) \cup AsciiDigit \cup {".", "-"}

\* C15: what sanitize_cypher_label returns matches ^[A-Za-z_][A-Za-z0-9_]*$
\* (as "Unknown" does), so validate_cypher_label accepts it.
C15_SanitizedLabelValid ==
  Returned("sanitize_cypher_label") =>
    /\ IsIdentifier(ret.out)
    /\ validate_cypher_label(ret.out)

\* C16: sanitize_cypher_label applied to what it returned returns the same.
C16_SanitizeIdempotent ==
  Returned("sanitize_cypher_label") => sanitize_cypher_label(ret.out) = ret.out

\* A label that starts with a digit has got its underscore, and characters
\* of it were dropped.
C16_Witness ==
  /\ Returned("sanitize_cypher_label")
  /\ Len(args.in) = MaxLen
  /\ IsDigit(args.in[2])
  /\ ret.out = <<"_">> \o SubSeq(args.in, 2, 2)

\* C17: what sanitize_database_name returns matches ^[a-z][a-z0-9.-]*$ (as
\* "synesis" does).
C17_StoreNameValid ==
  Returned("sanitize_database_name") => IsStoreName(ret.out)

\* The group the classification table gives a field, from its scope (read
\* in upper case, as line 332 does) and its type.
FieldGroup(spec) ==
  CASE Upper(spec.scope) = Lit.ONTOLOGY
         /\ spec.type \in {Lit.TOPIC, Lit.ENUMERATED, Lit.ORDERED} -> "taxonomy"
    [] Upper(spec.scope) = Lit.ONTOLOGY
         /\ spec.type \notin {Lit.TOPIC, Lit.ENUMERATED, Lit.ORDERED} -> "scalar"
    [] Upper(spec.scope) = Lit.ITEM /\ spec.type = Lit.CHAIN -> "chain"
    [] Upper(spec.scope) = Lit.ITEM /\ spec.type = Lit.CODE -> "code"
    [] Upper(spec.scope) = Lit.SOURCE -> "source"
    [] OTHER -> "ignored"

\* The field names of each list that analyze_template returned.
Groups(analysis) ==
  [scalar   |-> analysis.scalar_fields,
   taxonomy |-> analysis.graph_fields,
   chain    |-> [i \in DOMAIN analysis.chain_fields |-> analysis.chain_fields[i].field_name],
   code     |-> [i \in DOMAIN analysis.code_fields |-> analysis.code_fields[i].field_name],
   source   |-> analysis.source_fields]

\* C18: every field of the template is in the one list its scope and type
\* give it, once, or in none when the table ignores the pair; and a value
\* map is recorded for taxonomy fields only (for those that list values).
C18_TemplatePartitioned ==
  Returned("analyze_template") =>
    LET groups == Groups(ret.out)
    IN /\ \A i \in DOMAIN args.in : \A g \in DOMAIN groups :
            Cardinality({k \in DOMAIN groups[g] : groups[g][k] = args.in[i].name})
              = IF FieldGroup(args.in[i]) = g THEN 1 ELSE 0
       /\ \A g \in DOMAIN groups :
            Range(groups[g]) \subseteq Range(FieldNames(args.in))
       /\ \A i \in DOMAIN args.in :
            args.in[i].name \in DOMAIN ret.out.value_maps
              <=> (FieldGroup(args.in[i]) = "taxonomy" /\ args.in[i].values # <<>>)
       /\ \A n \in DOMAIN ret.out.value_maps : n \in Range(FieldNames(args.in))

\* A template with a scalar field that lists values and an item field of a
\* type the table does not name.
C18_Witness ==
  /\ Returned("analyze_template")
  /\ Len(args.in) = 2
  /\ FieldGroup(args.in[1]) = "scalar" /\ args.in[1].values # <<>>
  /\ args.in[2].scope = Lit.ITEM /\ FieldGroup(args.in[2]) = "ignored"

\* A value that is there and is not empty.
NonEmpty(data, key) == key \in DOMAIN data /\ data[key].v # <<>>

\* The extraction mode of a record: chain when its chain value is not
\* empty; otherwise code when a declared code field of it is not empty.
RecordMode(rec, code_field_names) ==
  IF NonEmpty(rec.data, Lit.chain) THEN "chain"
  ELSE IF \E i \in DOMAIN code_field_names : NonEmpty(rec.data, code_field_names[i])
    THEN "code"
  ELSE "none"

\* An item id made from the id of the record.
OfRecord(item_id, rec) ==
  /\ Len(item_id) > Len(rec.id)
  /\ SubSeq(item_id, 1, Len(rec.id)) = rec.id

\* The "_n" or "_c" that follows the record's id in an item id.
ModeSuffix(item_id, rec) == SubSeq(item_id, Len(rec.id) + 1, Len(rec.id) + 2)

ItemIdsOf(seq) == {seq[i].item_id : i \in DOMAIN seq}

\* The item ids in what _extract_corpus_data returned for the record.
ExtractedFor(out, rec) ==
  [items       |-> {id \in {out.items[i][Lit.item_id].v : i \in DOMAIN out.items} :
                      OfRecord(id, rec)},
   mentions    |-> {id \in ItemIdsOf(out.mentions) : OfRecord(id, rec)},
   chains      |-> {id \in ItemIdsOf(out.chains) : OfRecord(id, rec)},
   from_source |-> {id \in ItemIdsOf(out.from_source) : OfRecord(id, rec)}]

\* The code values of a record, of all its declared code fields.
CodesOf(rec, code_field_names) ==
  UNION {IF rec.data[code_field_names[i]].t = "list"
           THEN Range(rec.data[code_field_names[i]].v)
           ELSE {rec.data[code_field_names[i]]} :
         i \in {j \in DOMAIN code_field_names : code_field_names[j] \in DOMAIN rec.data}}

\* C19: a record with a chain value is extracted in chain mode only (items
\* "_n", no mention of a code of it); a record without one and with a code
\* value in code mode only (items "_c", one per code, no chain); any other
\* record gives no item, mention, chain or from_source entry; and every
\* source reference gives one Source.
C19_OneExtractionMode ==
  Returned("_extract_corpus_data") =>
    /\ \A r \in DOMAIN args.in.corpus :
         LET rec   == args.in.corpus[r]
             mode  == RecordMode(rec, args.in.code_field_names)
             mine  == ExtractedFor(ret.out, rec)
             every == mine.items \cup mine.mentions \cup mine.chains \cup mine.from_source
         IN /\ mode = "chain" =>
                 /\ \A id \in every : ModeSuffix(id, rec) = Lit.sfx_n
                 /\ \A i \in DOMAIN ret.out.mentions :
                      OfRecord(ret.out.mentions[i].item_id, rec) =>
                        ret.out.mentions[i].concept
                          \notin CodesOf(rec, args.in.code_field_names)
            /\ mode = "code" =>
                 /\ \A id \in every : ModeSuffix(id, rec) = Lit.sfx_c
                 /\ mine.items # {}
                 /\ mine.mentions = mine.items /\ mine.from_source = mine.items
                 /\ mine.chains = {}
            /\ mode = "none" => every = {}
    /\ LET refs == [i \in DOMAIN ret.out.sources |-> ret.out.sources[i][Lit.bibtex]]
       IN /\ Cardinality(Range(refs)) = Len(refs)
          /\ Range(refs) = {PyStr(LStrip(args.in.corpus[r].source_ref, "@")) :
                              r \in DOMAIN args.in.corpus}

\* A record with a note/chain pair and a code, and a record with neither
\* that cites the same source.
C19_Witness ==
  /\ Returned("_extract_corpus_data")
  /\ Len(args.in.corpus) = 2
  /\ NonEmpty(args.in.corpus[1].data, Lit.chain)
  /\ NonEmpty(args.in.corpus[1].data, Lit.code)
  /\ NonEmpty(args.in.corpus[1].data, Lit.note)
  /\ RecordMode(args.in.corpus[2], args.in.code_field_names) = "none"
  /\ Len(ret.out.sources) = 1
  /\ Len(ret.out.items) = 1

\* s in upper case, its blanks and hyphens replaced by underscores.
UpperSnake(s) ==
  [i \in DOMAIN s |-> IF s[i] \in {" ", "-"} THEN "_" ELSE UpperChar(s[i])]

\* The record is in chain mode and each of its note/chain pairs has a chain
\* entry of three nodes or more.
ChainRecord(rec) ==
  /\ NonEmpty(rec.data, Lit.chain)
  /\ Lit.note \in DOMAIN rec.data
  /\ \A k \in DOMAIN rec.data[Lit.chain].v :
       k <= Len(rec.data[Lit.note].v) => Len(rec.data[Lit.chain].v[k].nodes) >= 3

\* What chain mode gives for every such record, when relation(nodes) is the
\* relation name that is normalized into the edge type: n items with the
\* ids "_n0001".., the notes as descriptions; 2n mentions, of the trimmed
\* first node at order 1 and the trimmed third node at order 2; n chains.
ChainModeYields(relation(_)) ==
  \A r \in DOMAIN args.in.corpus :
    ChainRecord(args.in.corpus[r]) =>
      LET rec      == args.in.corpus[r]
          notes    == rec.data[Lit.note].v
          entries  == rec.data[Lit.chain].v
          n        == IF Len(notes) < Len(entries) THEN Len(notes) ELSE Len(entries)
          id(k)    == rec.id \o <<"_","n","0","0","0">> \o IntToStr(k)
          mine(x)  == OfRecord(x.item_id, rec)
          itemOf(x) == OfRecord(x[Lit.item_id].v, rec)
          items    == SelectSeq(ret.out.items, itemOf)
          mentions == SelectSeq(ret.out.mentions, mine)
          chains   == SelectSeq(ret.out.chains, mine)
      IN /\ Len(items) = n
         /\ Len(mentions) = 2 * n
         /\ Len(chains) = n
         /\ \A k \in 1..n :
              /\ items[k][Lit.item_id] = PyStr(id(k))
              /\ items[k][Lit.description] = notes[k]
              /\ mentions[2 * k - 1] = [item_id |-> id(k),
                                        concept |-> PyStr(Strip(entries[k].nodes[1])),
                                        order   |-> 1]
              /\ mentions[2 * k] = [item_id |-> id(k),
                                    concept |-> PyStr(Strip(entries[k].nodes[3])),
                                    order   |-> 2]
              /\ chains[k].item_id = id(k)
              /\ chains[k].source = Strip(entries[k].nodes[1])
              /\ chains[k].target = Strip(entries[k].nodes[3])
              /\ chains[k].type = UpperSnake(relation(entries[k].nodes))

SecondNode(nodes) == nodes[2]

TrimmedSecondNode(nodes) == Strip(nodes[2])

\* C20 as stated: the type of a chain is the second node in upper case with
\* blanks and hyphens replaced by underscores.
C20_ChainMode == Returned("_extract_corpus_data") => ChainModeYields(SecondNode)

\* C20: a record with n note/chain pairs gives n items, 2n mentions and n
\* chains as stated, the type of a chain being the trimmed second node in
\* upper case with blanks and hyphens replaced by underscores.
C20_ChainModeTrimmed ==
  Returned("_extract_corpus_data") => ChainModeYields(TrimmedSecondNode)

\* A record with MaxLen pairs, the first with blanks around its nodes,
\* after a record of another mode.
C20_Witness ==
  /\ Returned("_extract_corpus_data")
  /\ Len(args.in.corpus) = 2
  /\ RecordMode(args.in.corpus[1], args.in.code_field_names) = "code"
  /\ ChainRecord(args.in.corpus[2])
  /\ Len(args.in.corpus[2].data[Lit.note].v) = MaxLen
  /\ Len(ret.out.chains) = MaxLen
  /\ ret.out.chains[1].type = <<"R","E","_","L","_","X">>

\* The record is in code mode: it has no chain value, or an empty one, and
\* a declared code field of it is not empty.
CodeRecord(rec, code_field_names) == RecordMode(rec, code_field_names) = "code"

\* The codes [c1..cn] of a record in code mode: the value of its first
\* declared code field that is not empty, a scalar as a list of one.
FirstCodes(rec, code_field_names) ==
  LET withCode == {i \in DOMAIN code_field_names :
                     NonEmpty(rec.data, code_field_names[i])}
      first    == CHOOSE i \in withCode : \A j \in withCode : i <= j
      value    == rec.data[code_field_names[first]]
  IN IF value.t = "list" THEN value.v ELSE <<value>>

\* C21: a record in code mode whose first non-empty declared code field
\* holds [c1..cn] gives exactly n items with the ids "_c0001".."_c000n",
\* exactly n mentions, the i-th of item i and concept ci at order 1, and no
\* chain.
C21_CodeMode ==
  Returned("_extract_corpus_data") =>
    \A r \in DOMAIN args.in.corpus :
      CodeRecord(args.in.corpus[r], args.in.code_field_names) =>
        LET rec       == args.in.corpus[r]
            codes     == FirstCodes(rec, args.in.code_field_names)
            n         == Len(codes)
            id(k)     == rec.id \o <<"_","c","0","0","0">> \o IntToStr(k)
            mine(x)   == OfRecord(x.item_id, rec)
            itemOf(x) == OfRecord(x[Lit.item_id].v, rec)
            items     == SelectSeq(ret.out.items, itemOf)
            mentions  == SelectSeq(ret.out.mentions, mine)
            chains    == SelectSeq(ret.out.chains, mine)
        IN /\ Len(items) = n
           /\ Len(mentions) = n
           /\ chains = <<>>
           /\ \A k \in 1..n :
                /\ items[k][Lit.item_id] = PyStr(id(k))
                /\ mentions[k] = [item_id |-> id(k), concept |-> codes[k], order |-> 1]

\* A record with an empty first code field and a code in the second, then a
\* record with two codes in the first code field and a code in the second.
C21_Witness ==
  /\ Returned("_extract_corpus_data")
  /\ Len(args.in.corpus) = 2
  /\ \A r \in 1..2 : CodeRecord(args.in.corpus[r], args.in.code_field_names)
  /\ args.in.corpus[1].data[Lit.code] = PyList(<<>>)
  /\ FirstCodes(args.in.corpus[1], args.in.code_field_names) = <<PyStr(<<"L">>)>>
  /\ Len(FirstCodes(args.in.corpus[2], args.in.code_field_names)) = 2
  /\ Len(ret.out.items) = 3
  /\ Len(ret.out.mentions) = 3

\* The source reference of a record: source_ref as line 558 reads it, its
\* leading "@" dropped.
SourceRef(rec) ==
  LET s    == rec.source_ref
      kept == {k \in DOMAIN s : \E j \in 1..k : s[j] # "@"}
  IN [i \in 1..Cardinality(kept) |-> s[Len(s) - Cardinality(kept) + i]]

\* The entries of sources with the reference ref as bibtex.
SourcesOf(sources, ref) ==
  {i \in DOMAIN sources : sources[i][Lit.bibtex] = PyStr(ref)}

\* The first record of the corpus with the source reference ref.
FirstCiting(corpus, ref) ==
  corpus[CHOOSE r \in DOMAIN corpus :
           /\ SourceRef(corpus[r]) = ref
           /\ \A q \in DOMAIN corpus : SourceRef(corpus[q]) = ref => r <= q]

DistinctIds(corpus) == \A r, q \in DOMAIN corpus : corpus[r].id = corpus[q].id => r = q

\* C23: for a corpus whose records have pairwise distinct ids, no two
\* entries of items share an item_id, whatever the modes of the records and
\* the sub-indexes within a record.
C23_ItemIdsUnique ==
  (Returned("_extract_corpus_data") /\ DistinctIds(args.in.corpus)) =>
    \A i, j \in DOMAIN ret.out.items :
      ret.out.items[i][Lit.item_id] = ret.out.items[j][Lit.item_id] => i = j

\* A record in chain mode with MaxLen pairs and one in code mode with two
\* codes: MaxLen + 2 items.
C23_Witness ==
  /\ Returned("_extract_corpus_data")
  /\ Len(args.in.corpus) = 2
  /\ DistinctIds(args.in.corpus)
  /\ RecordMode(args.in.corpus[1], args.in.code_field_names) = "chain"
  /\ RecordMode(args.in.corpus[2], args.in.code_field_names) = "code"
  /\ Len(ret.out.items) = MaxLen + 2

\* The label the claim gives a raw value of a field: with a value map, the
\* label of the index when the map has it and the index's string form when
\* it has not; with no value map, the string form of the value.
ResolvedLabel(value, gf, value_maps) ==
  IF gf \in DOMAIN value_maps /\ value.t = "int"
    THEN LET hits == {i \in DOMAIN value_maps[gf] : value_maps[gf][i].index = value.v}
         IN IF hits # {}
              THEN value_maps[gf][CHOOSE i \in hits : \A j \in hits : i <= j].label
              ELSE IntToStr(value.v)
    ELSE PyToStr(value)

\* The graph fields present on the entry.
PresentFields(entry, graph_fields) == Range(graph_fields) \cap DOMAIN entry.fields

\* C24: every taxonomy value present on an ontology entry is stored as a
\* list of string labels: the label of the value map for an index found in
\* it, the index's string form for an index not found, the string form of
\* the raw value when the field has no value map; a scalar gives a list of
\* one.
C24_ValuesResolved ==
  Returned("_extract_concepts") =>
    \A k \in DOMAIN args.in.ontology :
      LET entry     == args.in.ontology[k]
          relations == ret.out[k].relations
      IN /\ DOMAIN relations = PresentFields(entry, args.in.graph_fields)
         /\ \A gf \in DOMAIN relations :
              LET raw  == entry.fields[gf]
                  list == IF raw.t = "list" THEN raw.v ELSE <<raw>>
              IN relations[gf] =
                   [i \in DOMAIN list |->
                      PyStr(ResolvedLabel(list[i], gf, args.in.value_maps))]

\* The names of the declared fields of the type, in the order of the
\* template.
DeclaredNames(template, type) ==
  LET declared(spec) == spec.scope = Lit.ITEM /\ spec.type = type
  IN FieldNames(SelectSeq(template, declared))

\* The name with its first character in upper case and the others in lower
\* case.
Capitalized(s) == [i \in DOMAIN s |-> IF i = 1 THEN UpperChar(s[i]) ELSE LowerChar(s[i])]

\* The concept label of the payload is sanitize_cypher_label of written(the
\* name of the first chain field), else of written(the name of the first
\* code field), else "Concept".
ConceptLabelFrom(written(_)) ==
  LET chains == DeclaredNames(args.in.json_data.template, Lit.CHAIN)
      codes  == DeclaredNames(args.in.json_data.template, Lit.CODE)
  IN ret.out.concept_label =
       IF chains # <<>> THEN sanitize_cypher_label(written(chains[1]))
       ELSE IF codes # <<>> THEN sanitize_cypher_label(written(codes[1]))
       ELSE <<"C","o","n","c","e","p","t">>

\* C25 as stated: concept_label is sanitize_cypher_label of the name of the
\* first declared chain field, else of the first declared code field, else
\* "Concept".
C25_ConceptLabel ==
  Returned("_build_graph_payload") => ConceptLabelFrom(AsWritten)

\* C25: concept_label is sanitize_cypher_label of the capitalized name of
\* the first declared chain field if there is one, else of the capitalized
\* name of the first declared code field if there is one, else "Concept"; a
\* chain field goes before any code field.
C25_ConceptLabelCapitalized ==
  Returned("_build_graph_payload") => ConceptLabelFrom(Capitalized)

\* A code field declared before a chain field whose name is in mixed case
\* with a hyphen: the label is that of the chain field.
C25_Witness ==
  /\ Returned("_build_graph_payload")
  /\ DeclaredNames(args.in.json_data.template, Lit.CODE) = <<<<"7","c","1">>>>
  /\ DeclaredNames(args.in.json_data.template, Lit.CHAIN) = <<<<"r","E","-","2">>>>
  /\ args.in.json_data.template[1].type = Lit.CODE
  /\ ret.out.concept_label = <<"R","e","2">>

\* ensure_database_exists has just returned after the warning that the
\* server has one database only, and the data session has been opened.
SessionAfterUnsupported ==
  /\ pc = "show_constraints"
  /\ Len(reports) >= 2
  /\ reports[Len(reports) - 1] = Event("warning", "Multi-database not supported")

\* C26: when ensure_database_exists fails because the server does not
\* support several databases, it warns and returns no error, and the data
\* session for clear, sync and metrics is opened on the server's default
\* database, not on the database named after the project.
C26_DefaultDatabaseUsed ==
  SessionAfterUnsupported =>
    /\ ~result.done
    /\ calls[Len(calls) - 1].call = "driver.session"
    /\ calls[Len(calls) - 1].arg # TargetDatabase

\* _execute_sync_transaction has just committed.
SyncCommitted == pc = "metrics"

\* The names of the ontology concepts and of the sources and targets of the
\* chains of the payload.
KnownConcepts ==
  {payload.concepts[i].props[Lit.name] : i \in DOMAIN payload.concepts}
    \cup {PyStr(payload.chains[i].source) : i \in DOMAIN payload.chains}
    \cup {PyStr(payload.chains[i].target) : i \in DOMAIN payload.chains}

\* The MENTIONS edge of a mention, from its item to the concept it names.
MentionEdge(m) ==
  <<Lit.MENTIONS, NodeId(Lit.Item, Lit.item_id, PyStr(m.item_id)),
    NodeId(payload.concept_label, Lit.name, m.concept)>>

\* C27: after a successful _execute_sync_transaction the MENTIONS edge of a
\* mention exists exactly when the mention names an ontology concept or the
\* source or target of a chain; for any other mention there is neither a
\* concept node nor an edge, and the transaction has committed all the same.
C27_MentionsOfKnownConcepts ==
  SyncCommitted =>
    \A k \in DOMAIN payload.mentions :
      LET m == payload.mentions[k]
      IN /\ MentionEdge(m) \in DOMAIN store.rels <=> m.concept \in KnownConcepts
         /\ m.concept \notin KnownConcepts => MentionEdge(m)[3] \notin DOMAIN store.nodes

\* The mentions of the list with the item id.
MentionsOf(mentions, item_id) == {k \in DOMAIN mentions : mentions[k].item_id = item_id}

====
